---- MODULE Spec2Model ----
(***************************************************************************)
(* Model of the document-generation pipeline of DocForgeHub                *)
(* (src/agent/agent_graph.py): the LangGraph state machine                 *)
(*   analyze_schema_gaps -> build_prompt -> generate_document ->           *)
(*   quality_gate -(failed, retry < 2)-> fix_document -> quality_gate      *)
(* together with the pure helpers the nodes call.                          *)
(*                                                                         *)
(* Python strings are sequences of one-character strings, Python dicts are *)
(* records whose DOMAIN is the set of keys present, Python lists are       *)
(* sequences.  f-string messages are records naming their parts.           *)
(***************************************************************************)
EXTENDS Integers, Sequences, FiniteSets, TLC

(***************************************************************************)
(* Characters and str methods                                              *)
(***************************************************************************)
NL == "\n"

UpperChars == <<"A","B","C","D","E","F","G","H","I","J","K","L","M",
                "N","O","P","Q","R","S","T","U","V","W","X","Y","Z">>

LowerChars == <<"a","b","c","d","e","f","g","h","i","j","k","l","m",
                "n","o","p","q","r","s","t","u","v","w","x","y","z">>

DigitChars == {"0","1","2","3","4","5","6","7","8","9"}

SpaceChars == {" ", "\t", "\n", "\r"}

UpperSet == {UpperChars[i] : i \in 1..26}

LowerSet == {LowerChars[i] : i \in 1..26}

\* regex class \w
WordChars == UpperSet \cup LowerSet \cup DigitChars \cup {"_"}

\* regex class [\w\s]
WordOrSpaceChars == WordChars \cup SpaceChars

\* regex class [\s\-|]
SeparatorChars == SpaceChars \cup {"-", "|"}

\* str.lower() on one character
LowerChar(c) ==
    IF c \in UpperSet
    THEN LowerChars[CHOOSE i \in 1..26 : UpperChars[i] = c]
    ELSE c

\* str.lower()
Lower(s) == [i \in 1..Len(s) |-> LowerChar(s[i])]

\* s[a:b] with 1-based inclusive bounds, empty when a > b
Slice(s, a, b) == IF a > b THEN <<>> ELSE SubSeq(s, a, b)

\* str.lstrip(): index of the first character not in cs, Len(s)+1 if none
FirstNotIn(s, cs) ==
    IF \E i \in 1..Len(s) : s[i] \notin cs
    THEN CHOOSE i \in 1..Len(s) : s[i] \notin cs /\ \A j \in 1..(i-1) : s[j] \in cs
    ELSE Len(s) + 1

\* index of the last character not in cs, 0 if none
LastNotIn(s, cs) ==
    IF \E i \in 1..Len(s) : s[i] \notin cs
    THEN CHOOSE i \in 1..Len(s) : s[i] \notin cs /\ \A j \in (i+1)..Len(s) : s[j] \in cs
    ELSE 0

\* str.lstrip(chars)
LStripChars(s, cs) == Slice(s, FirstNotIn(s, cs), Len(s))

\* str.strip()
Strip(s) == Slice(s, FirstNotIn(s, SpaceChars), LastNotIn(s, SpaceChars))

\* str.startswith(p)
StartsWith(s, p) == Len(p) <= Len(s) /\ \A k \in 1..Len(p) : s[k] = p[k]

\* p occurs in s at position i
OccursAt(s, p, i) ==
    /\ i + Len(p) - 1 <= Len(s)
    /\ \A k \in 1..Len(p) : s[i + k - 1] = p[k]

\* the Python operator `p in s` on strings
IsSubstr(p, s) == \E i \in 1..(Len(s) + 1) : OccursAt(s, p, i)

\* str.find(p, i): the first position >= i where p occurs in s, 0 if none
FindFrom(s, p, i) ==
    IF \E j \in i..Len(s) : OccursAt(s, p, j)
    THEN CHOOSE j \in i..Len(s) : OccursAt(s, p, j) /\ \A k \in i..(j - 1) : ~OccursAt(s, p, k)
    ELSE 0

\* str.split(sep): the pieces between the non-overlapping occurrences of sep,
\* scanning from the left
RECURSIVE SplitStrFrom(_, _, _)
SplitStrFrom(s, sep, start) ==
    LET at == FindFrom(s, sep, start)
    IN  IF at = 0 THEN <<Slice(s, start, Len(s))>>
        ELSE <<Slice(s, start, at - 1)>> \o SplitStrFrom(s, sep, at + Len(sep))

SplitStr(s, sep) == SplitStrFrom(s, sep, 1)

\* str.split(sep) for a one-character separator
Split(s, sep) == SplitStr(s, <<sep>>)

\* str.count(p): the number of non-overlapping occurrences of p from position i
RECURSIVE CountFrom(_, _, _)
CountFrom(s, p, i) ==
    LET at == FindFrom(s, p, i)
    IN  IF at = 0 THEN 0 ELSE 1 + CountFrom(s, p, at + Len(p))

\* sep.join(parts)
RECURSIVE Join(_, _)
Join(parts, sep) ==
    IF Len(parts) = 0 THEN <<>>
    ELSE IF Len(parts) = 1 THEN parts[1]
    ELSE parts[1] \o sep \o Join(Tail(parts), sep)

\* what calling a node gives: the partial state it returns, or an exception
Return(update) == [raised |-> FALSE, update |-> update]

Raise == [raised |-> TRUE]

\* dict.get(k, default)
Get(d, k, default) == IF k \in DOMAIN d THEN d[k] ELSE default

\* LangGraph's state update: the partial dict a node returns overwrites
\* the keys it names and leaves the others alone
Merge(s, u) == [k \in DOMAIN s |-> IF k \in DOMAIN u THEN u[k] ELSE s[k]]

\* concatenation of a sequence of sequences
RECURSIVE Concat(_)
Concat(seqs) == IF Len(seqs) = 0 THEN <<>> ELSE Head(seqs) \o Concat(Tail(seqs))

\* bool(x) of a Python list or string
Truthy(seq) == Len(seq) > 0

\* Python's None where a list is expected (what json.loads makes of null),
\* written as a value that no list of the model equals
None == <<[kind |-> "NoneType"]>>

(***************************************************************************)
(* Schema queries                                                          *)
(***************************************************************************)
\* the literal "Data Table"
DataTableTitle == <<"D","a","t","a"," ","T","a","b","l","e">>

\* is_table_only_schema without the guard on an empty section list
is_table_only_schema_no_guard(required_section) ==
    LET sections == Get(required_section, "sections", <<>>)
    IN  \A i \in 1..Len(sections) :
            /\ Get(sections[i], "type", "None") = "table"
            /\ ~Truthy(Get(sections[i], "subsections", <<>>))

is_table_only_schema(required_section) ==
    LET sections == Get(required_section, "sections", <<>>)
    IN  IF ~Truthy(sections) THEN FALSE
        ELSE \A i \in 1..Len(sections) :
                /\ Get(sections[i], "type", "None") = "table"
                /\ ~Truthy(Get(sections[i], "subsections", <<>>))

get_table_columns(required_section) ==
    LET sections == Get(required_section, "sections", <<>>)
        IsTable(i) == Get(sections[i], "type", "None") = "table"
    IN  IF \E i \in 1..Len(sections) : IsTable(i)
        THEN LET first == CHOOSE i \in 1..Len(sections) :
                              IsTable(i) /\ \A j \in 1..(i-1) : ~IsTable(j)
             IN  Get(sections[first], "columns", <<>>)
        ELSE <<>>

get_table_section_title(required_section) ==
    LET sections == Get(required_section, "sections", <<>>)
        Titled(i) == /\ Get(sections[i], "type", "None") = "table"
                     /\ Truthy(Strip(Get(sections[i], "title", <<>>)))
        doc_name == Strip(Get(required_section, "document_name", <<>>))
        doc_type == Strip(Get(required_section, "document_type", <<>>))
    IN  IF \E i \in 1..Len(sections) : Titled(i)
        THEN LET first == CHOOSE i \in 1..Len(sections) :
                              Titled(i) /\ \A j \in 1..(i-1) : ~Titled(j)
             IN  Strip(Get(sections[first], "title", <<>>))
        ELSE IF Truthy(doc_name) THEN doc_name
        ELSE IF Truthy(doc_type) THEN doc_type
        ELSE DataTableTitle

(***************************************************************************)
(* Structure validator                                                     *)
(***************************************************************************)
\* end of the run of digits that starts at position i (i - 1 if none)
RECURSIVE DigitRunEnd(_, _)
DigitRunEnd(s, i) ==
    IF i <= Len(s) /\ s[i] \in DigitChars THEN DigitRunEnd(s, i + 1) ELSE i - 1

\* end of the longest match of (\.\d+)* that starts after position p
RECURSIVE DotGroupsEnd(_, _)
DotGroupsEnd(s, p) ==
    IF p + 2 <= Len(s) /\ s[p + 1] = "." /\ s[p + 2] \in DigitChars
    THEN DotGroupsEnd(s, DigitRunEnd(s, p + 2))
    ELSE p

\* re.sub(r"^\d+(\.\d+)*\.?\s*", "", text)
StripNumberPrefix(text) ==
    IF Len(text) = 0 \/ text[1] \notin DigitChars THEN text
    ELSE LET p1 == DotGroupsEnd(text, DigitRunEnd(text, 1))
             p2 == IF p1 + 1 <= Len(text) /\ text[p1 + 1] = "." THEN p1 + 1 ELSE p1
             rest == Slice(text, p2 + 1, Len(text))
         IN  LStripChars(rest, SpaceChars)

\* re.sub(r"[^\w\s]", "", text)
StripPunctuation(text) == SelectSeq(text, LAMBDA c : c \in WordOrSpaceChars)

_normalise_heading(raw) ==
    LET t1 == Strip(LStripChars(Strip(raw), {"#"}))
        t2 == StripNumberPrefix(t1)
        t3 == StripPunctuation(t2)
    IN  Strip(Lower(t3))

\* sorted(subsections, key=lambda s: s.get("order", 0)): a stable sort
RECURSIVE SortedByOrder(_)
SortedByOrder(subs) ==
    IF Len(subs) <= 1 THEN subs
    ELSE LET front == SortedByOrder(SubSeq(subs, 1, Len(subs) - 1))
             x == subs[Len(subs)]
             k == Cardinality({i \in 1..Len(front) :
                                  Get(front[i], "order", 0) <= Get(x, "order", 0)})
         IN  SubSeq(front, 1, k) \o <<x>> \o Slice(front, k + 1, Len(front))

\* the expected entries one top-level section contributes
SectionEntries(schema_section) ==
    LET subsections == Get(schema_section, "subsections", <<>>)
        Entry(item) == [title |-> Strip(Get(item, "title", <<>>)),
                        type |-> Get(item, "type", "text"),
                        columns |-> Get(item, "columns", <<>>)]
        sorted == SortedByOrder(subsections)
        all == [i \in 1..Len(sorted) |-> Entry(sorted[i])]
    IN  IF Truthy(subsections)
        THEN SelectSeq(all, LAMBDA e : Truthy(e.title))
        ELSE IF Truthy(Strip(Get(schema_section, "title", <<>>)))
             THEN <<Entry(schema_section)>>
             ELSE <<>>

ExpectedSections(required_section) ==
    LET sections == Get(required_section, "sections", <<>>)
    IN  Concat([i \in 1..Len(sections) |-> SectionEntries(sections[i])])

\* the dict comprehension {_normalise_heading(e["title"]): e for e in expected}:
\* a later entry with the same key replaces the value and keeps the position
RECURSIVE Allowlist(_)
Allowlist(expected) ==
    IF Len(expected) = 0 THEN <<>>
    ELSE LET front == Allowlist(SubSeq(expected, 1, Len(expected) - 1))
             e == expected[Len(expected)]
             key == _normalise_heading(e.title)
         IN  IF \E i \in 1..Len(front) : front[i].key = key
             THEN [i \in 1..Len(front) |->
                      IF front[i].key = key THEN [key |-> key, entry |-> e] ELSE front[i]]
             ELSE Append(front, [key |-> key, entry |-> e])

\* the (line_index, raw_text) pairs of the heading lines, with the
\* normalised text of doc_headings_norm alongside
DocHeadings(doc_lines) ==
    LET heading_idx == SelectSeq([i \in 1..Len(doc_lines) |-> i],
                           LAMBDA i : StartsWith(Strip(doc_lines[i]), <<"#">>))
        Raw(i) == Strip(LStripChars(Strip(doc_lines[i]), {"#"}))
    IN  [h \in 1..Len(heading_idx) |->
            [idx |-> heading_idx[h],
             raw |-> Raw(heading_idx[h]),
             norm |-> _normalise_heading(Raw(heading_idx[h]))]]

\* the skip-list of CHECK 2
SkipHeadings(required_section) ==
    LET sections == Get(required_section, "sections", <<>>)
        doc_name == _normalise_heading(Get(required_section, "document_name", <<>>))
        doc_type == _normalise_heading(Get(required_section, "document_type", <<>>))
        parents == {_normalise_heading(Get(sections[i], "title", <<>>)) : i \in 1..Len(sections)}
    IN  {h \in {doc_name, doc_type} \cup parents : Truthy(h)}

\* re.search(r"\|[\s\-|]+\|", text)
HasSeparatorRow(text) ==
    \E i \in 1..Len(text) :
        /\ text[i] = "|"
        /\ \E j \in (i + 2)..Len(text) :
              /\ text[j] = "|"
              /\ \A k \in (i + 1)..(j - 1) : text[k] \in SeparatorChars

\* [col.strip() for col in line.split("|") if col.strip()]
RowCells(line) ==
    LET parts == Split(line, "|")
        stripped == [i \in 1..Len(parts) |-> Strip(parts[i])]
    IN  SelectSeq(stripped, LAMBDA c : Truthy(c))

\* [line.strip() for line in lines if line.strip().startswith("|")]
PipeLines(lines) ==
    SelectSeq([i \in 1..Len(lines) |-> Strip(lines[i])], LAMBDA l : StartsWith(l, <<"|">>))

LowerAll(cols) == [i \in 1..Len(cols) |-> Lower(cols[i])]

\* CHECK 1 that also accepts a heading contained in the title
MissingErrors_either_direction(allowlist, headings) ==
    LET Found(a) == \E h \in 1..Len(headings) :
                        \/ IsSubstr(a.key, headings[h].norm)
                        \/ IsSubstr(headings[h].norm, a.key)
        missing == SelectSeq(allowlist, LAMBDA a : ~Found(a))
    IN  [i \in 1..Len(missing) |-> [kind |-> "Missing", title |-> missing[i].entry.title]]

\* CHECK 1: one "Missing required section" error per allowlist entry that no
\* document heading contains
MissingErrors(allowlist, headings) ==
    LET Found(a) == \E h \in 1..Len(headings) : IsSubstr(a.key, headings[h].norm)
        missing == SelectSeq(allowlist, LAMBDA a : ~Found(a))
    IN  [i \in 1..Len(missing) |-> [kind |-> "Missing", title |-> missing[i].entry.title]]

\* CHECK 2 with the skip-list looked up by equality
ExtraErrors_exact_skip(allowlist, skip_headings, headings) ==
    LET InAllowlist(h) == \E a \in 1..Len(allowlist) :
                              \/ IsSubstr(allowlist[a].key, h.norm)
                              \/ IsSubstr(h.norm, allowlist[a].key)
        extra == SelectSeq(headings, LAMBDA h : ~InAllowlist(h) /\ h.norm \notin skip_headings)
    IN  [i \in 1..Len(extra) |-> [kind |-> "Extra", raw |-> extra[i].raw]]

\* CHECK 2: one "Extra section not in schema" error per heading that matches
\* neither the allowlist nor the skip-list
ExtraErrors(allowlist, skip_headings, headings) ==
    LET InAllowlist(h) == \E a \in 1..Len(allowlist) :
                              \/ IsSubstr(allowlist[a].key, h.norm)
                              \/ IsSubstr(h.norm, allowlist[a].key)
        InSkip(h) == \E skip \in skip_headings :
                         IsSubstr(skip, h.norm) \/ IsSubstr(h.norm, skip)
        extra == SelectSeq(headings, LAMBDA h : ~InAllowlist(h) /\ ~InSkip(h))
    IN  [i \in 1..Len(extra) |-> [kind |-> "Extra", raw |-> extra[i].raw]]

\* CHECK 3 for one allowlist entry: zero or one "Section ..." error
TableErrorsOf(a, doc_lines, headings) ==
    LET expected_cols == a.entry.columns
        Hit(h) == IsSubstr(a.key, headings[h].norm)
        first == CHOOSE h \in 1..Len(headings) : Hit(h) /\ \A g \in 1..(h - 1) : ~Hit(g)
        heading_line_idx == headings[first].idx
        \* doc_lines[heading_line_idx:next_heading_idx], the heading line included
        last_line == IF first < Len(headings) THEN headings[first + 1].idx - 1
                     ELSE Len(doc_lines)
        block_lines == Slice(doc_lines, heading_line_idx, last_line)
        block_text == Join(block_lines, <<NL>>)
        table_lines == PipeLines(block_lines)
        actual_cols == RowCells(table_lines[1])
    IN  IF a.entry.type # "table" THEN <<>>
        ELSE IF ~\E h \in 1..Len(headings) : Hit(h) THEN <<>>
        ELSE IF ~HasSeparatorRow(block_text)
             THEN <<[kind |-> "Section", what |-> "must contain a Markdown table",
                     title |-> a.entry.title, expected |-> expected_cols]>>
        ELSE IF Truthy(expected_cols) /\ Truthy(table_lines)
                /\ LowerAll(expected_cols) # LowerAll(actual_cols)
             THEN <<[kind |-> "Section", what |-> "has wrong table columns",
                     title |-> a.entry.title, expected |-> expected_cols,
                     actual |-> actual_cols]>>
        ELSE <<>>

validate_document_structure(document_text, required_section) ==
    LET expected_sections == ExpectedSections(required_section)
        doc_lines == Split(document_text, NL)
        headings == DocHeadings(doc_lines)
        allowlist == Allowlist(expected_sections)
    IN  IF is_table_only_schema(required_section) THEN <<>>
        ELSE IF ~Truthy(expected_sections) THEN <<>>
        ELSE MissingErrors(allowlist, headings)
             \o ExtraErrors(allowlist, SkipHeadings(required_section), headings)
             \o Concat([i \in 1..Len(allowlist) |->
                           TableErrorsOf(allowlist[i], doc_lines, headings)])

(***************************************************************************)
(* Model replies                                                           *)
(*                                                                         *)
(* A reply of llm.invoke is [raises, content].  The content of a JSON      *)
(* reply is a sequence of tokens: [t |-> "fence_json"] is the text         *)
(* ```json, [t |-> "fence"] is ```, [t |-> "prose"] is text that is not    *)
(* JSON, [t |-> "json", v |-> value] is the text of one JSON value.        *)
(***************************************************************************)
IsFence(tok) == tok.t \in {"fence", "fence_json"}

\* text.split(sep)[1].split("```")[0] on tokens: what lies between the first
\* token of a kind in seps and the next fence of either kind
RECURSIVE UpToFence(_)
UpToFence(toks) ==
    IF Len(toks) = 0 \/ IsFence(Head(toks)) THEN <<>>
    ELSE <<Head(toks)>> \o UpToFence(Tail(toks))

AfterFirst(toks, seps) ==
    LET first == CHOOSE i \in 1..Len(toks) :
                     toks[i].t \in seps /\ \A j \in 1..(i - 1) : toks[j].t \notin seps
    IN  UpToFence(Slice(toks, first + 1, Len(toks)))

\* the fence stripping both analyze_schema_gaps and quality_gate do
StripFences(toks) ==
    IF \E i \in 1..Len(toks) : toks[i].t = "fence_json"
    THEN AfterFirst(toks, {"fence_json"})
    ELSE IF \E i \in 1..Len(toks) : toks[i].t = "fence"
    THEN AfterFirst(toks, {"fence", "fence_json"})
    ELSE toks

\* json.loads succeeds when the text is exactly one JSON value
JsonParses(toks) == Len(toks) = 1 /\ toks[1].t = "json"

JsonValue(toks) == toks[1].v

\* a JSON number and the JSON null, as the values of a field that the code
\* compares with a number
JsonNumber(n) == [type |-> "number", n |-> n]

JsonNull == [type |-> "null"]

(***************************************************************************)
(* NODE 4: quality_gate                                                    *)
(***************************************************************************)
MinDocumentChars == 500

MinHeadingCount == 5

MinSectionChars == 100

MinTableLines == 3

\* forbidden = ["TBD", "to be decided", "[Company Name]", "[Insert", "Lorem ipsum"]
ForbiddenPhrases ==
    << <<"T","B","D">>,
       <<"t","o"," ","b","e"," ","d","e","c","i","d","e","d">>,
       <<"[","C","o","m","p","a","n","y"," ","N","a","m","e","]">>,
       <<"[","I","n","s","e","r","t">>,
       <<"L","o","r","e","m"," ","i","p","s","u","m">> >>

\* the four fallback rules, in the order the code appends their issues
RuleBasedIssues(document_text) ==
    LET lowered == Lower(document_text)
        hits == SelectSeq(ForbiddenPhrases, LAMBDA ph : IsSubstr(Lower(ph), lowered))
        sections_split == SplitStr(document_text, <<NL, "#", "#", " ">>)
        thin == SelectSeq(Tail(sections_split),
                          LAMBDA sec : Len(Strip(sec)) < MinSectionChars)
    IN  (IF Len(document_text) < MinDocumentChars
         THEN <<[kind |-> "Document is too short"]>> ELSE <<>>)
        \o [i \in 1..Len(hits) |-> [kind |-> "Contains placeholder", phrase |-> hits[i]]]
        \o (IF CountFrom(document_text, <<NL, "#">>, 1) < MinHeadingCount
            THEN <<[kind |-> "Too few sections"]>> ELSE <<>>)
        \o (IF Truthy(thin)
            THEN <<[kind |-> "sections are too thin", count |-> Len(thin)]>> ELSE <<>>)

RuleBasedVerdict(document_text) ==
    LET issues_found == RuleBasedIssues(document_text)
    IN  [quality_scores |-> <<>>,
         quality_issues |-> issues_found,
         quality_suggestions |-> <<>>,
         status |-> IF Truthy(issues_found) THEN "failed" ELSE "passed"]

\* the table-only branch comparing the column names as written
TableOnlyVerdict_case_sensitive(document_text, required_section) ==
    LET expected_columns == get_table_columns(required_section)
        doc_name == get_table_section_title(required_section)
        lines == Split(document_text, NL)
        stripped == [i \in 1..Len(lines) |-> Strip(lines[i])]
        IsHeading(l) == StartsWith(l, <<"#", " ">>) /\ ~StartsWith(l, <<"#", "#", " ">>)
        heading_lines == SelectSeq(stripped, IsHeading)
        table_lines == SelectSeq(stripped,
                           LAMBDA l : ~IsHeading(l) /\ IsSubstr(<<"|">>, l)
                                      /\ StartsWith(l, <<"|">>))
        heading_line == IF Truthy(heading_lines) THEN heading_lines[Len(heading_lines)]
                        ELSE <<"#", " ">> \o doc_name
        actual_columns == RowCells(table_lines[1])
        expected_normalized == [i \in 1..Len(expected_columns) |->
                                   Strip(expected_columns[i])]
        actual_normalized == [i \in 1..Len(actual_columns) |->
                                 Strip(actual_columns[i])]
    IN  IF Len(table_lines) < MinTableLines
        THEN [quality_scores |-> <<>>,
              quality_issues |-> <<[kind |-> "No Markdown table found",
                                    doc_name |-> doc_name,
                                    expected |-> expected_columns]>>,
              quality_suggestions |-> <<>>,
              status |-> "failed"]
        ELSE IF expected_normalized # actual_normalized
        THEN [quality_scores |-> <<>>,
              quality_issues |-> <<[kind |-> "Wrong columns",
                                    expected |-> expected_columns,
                                    actual |-> actual_columns]>>,
              quality_suggestions |-> <<>>,
              status |-> "failed"]
        ELSE [generated_document |-> heading_line \o <<NL, NL>>
                                     \o Join(table_lines, <<NL>>) \o <<NL>>,
              quality_scores |-> [structure |-> 5, completeness |-> 5],
              quality_issues |-> <<>>,
              quality_suggestions |-> <<>>,
              status |-> "passed"]

\* the deterministic table-only branch of quality_gate
TableOnlyVerdict(document_text, required_section) ==
    LET expected_columns == get_table_columns(required_section)
        doc_name == get_table_section_title(required_section)
        lines == Split(document_text, NL)
        stripped == [i \in 1..Len(lines) |-> Strip(lines[i])]
        IsHeading(l) == StartsWith(l, <<"#", " ">>) /\ ~StartsWith(l, <<"#", "#", " ">>)
        heading_lines == SelectSeq(stripped, IsHeading)
        table_lines == SelectSeq(stripped,
                           LAMBDA l : ~IsHeading(l) /\ IsSubstr(<<"|">>, l)
                                      /\ StartsWith(l, <<"|">>))
        \* the loop overwrites heading_line: the last heading line wins
        heading_line == IF Truthy(heading_lines) THEN heading_lines[Len(heading_lines)]
                        ELSE <<"#", " ">> \o doc_name
        actual_columns == RowCells(table_lines[1])
        expected_normalized == [i \in 1..Len(expected_columns) |->
                                   Strip(Lower(expected_columns[i]))]
        actual_normalized == [i \in 1..Len(actual_columns) |->
                                 Strip(Lower(actual_columns[i]))]
    IN  IF Len(table_lines) < MinTableLines
        THEN [quality_scores |-> <<>>,
              quality_issues |-> <<[kind |-> "No Markdown table found",
                                    doc_name |-> doc_name,
                                    expected |-> expected_columns]>>,
              quality_suggestions |-> <<>>,
              status |-> "failed"]
        ELSE IF expected_normalized # actual_normalized
        THEN [quality_scores |-> <<>>,
              quality_issues |-> <<[kind |-> "Wrong columns",
                                    expected |-> expected_columns,
                                    actual |-> actual_columns]>>,
              quality_suggestions |-> <<>>,
              status |-> "failed"]
        ELSE [generated_document |-> heading_line \o <<NL, NL>>
                                     \o Join(table_lines, <<NL>>) \o <<NL>>,
              quality_scores |-> [structure |-> 5, completeness |-> 5],
              quality_issues |-> <<>>,
              quality_suggestions |-> <<>>,
              status |-> "passed"]

\* the short-circuit of quality_gate on structural errors
StructureFailedVerdict(structure_errors) ==
    LET Has(kind) == \E i \in 1..Len(structure_errors) : structure_errors[i].kind = kind
    IN  [quality_scores |-> [structure |-> 1],
         quality_issues |-> structure_errors,
         quality_suggestions |->
             (IF Has("Missing") THEN <<[kind |-> "suggestion", text |-> "Add ALL missing sections"]>> ELSE <<>>)
             \o (IF Has("Extra") THEN <<[kind |-> "suggestion", text |-> "REMOVE every heading not in the schema"]>> ELSE <<>>)
             \o (IF Has("Section") THEN <<[kind |-> "suggestion", text |-> "Ensure every table section contains a real table"]>>
                 ELSE <<>>),
         status |-> "failed"]

\* a review step that reports the reply's issues on a pass as well
ReviewVerdict_keeps_issues(review_text) ==
    LET json_text == StripFences(review_text)
        review_result == JsonValue(json_text)
        fields == review_result.fields
        overall_score == Get(fields, "overall_score", JsonNumber(3))
        passed == Get(fields, "passed", overall_score.n >= 3)
    IN  IF ~JsonParses(json_text) THEN [ok |-> FALSE]
        ELSE IF review_result.type # "object" THEN [ok |-> FALSE]
        ELSE IF overall_score.type # "number" THEN [ok |-> FALSE]
        ELSE [ok |-> TRUE,
              update |-> [quality_scores |-> Get(fields, "scores", <<>>),
                          quality_issues |-> Get(fields, "issues", <<>>),
                          quality_suggestions |-> Get(fields, "suggestions", <<>>),
                          status |-> IF passed THEN "passed" ELSE "failed"]]

\* the body of the try block after llm.invoke returned review_text; the
\* result is [ok |-> FALSE] when any statement of it raises
ReviewVerdict(review_text) ==
    LET json_text == StripFences(review_text)
        review_result == JsonValue(json_text)
        fields == review_result.fields
        scores == Get(fields, "scores", <<>>)
        overall_score == Get(fields, "overall_score", JsonNumber(3))
        \* the default overall_score >= 3 is evaluated before .get is called,
        \* whether or not the reply has a `passed` key
        passed == Get(fields, "passed", overall_score.n >= 3)
        issues == Get(fields, "issues", <<>>)
        suggestions == Get(fields, "suggestions", <<>>)
    IN  IF ~JsonParses(json_text) THEN [ok |-> FALSE]
        \* .get on a JSON value that is not an object raises AttributeError
        ELSE IF review_result.type # "object" THEN [ok |-> FALSE]
        \* None >= 3 raises TypeError
        ELSE IF overall_score.type # "number" THEN [ok |-> FALSE]
        ELSE [ok |-> TRUE,
              update |-> [quality_scores |-> scores,
                          quality_issues |-> IF passed THEN <<>> ELSE issues,
                          quality_suggestions |-> suggestions,
                          status |-> IF passed THEN "passed" ELSE "failed"]]

\* a gate that short-circuits on missing sections only
StructureGate_missing_only(state) ==
    LET document_text == state.generated_document
        structure_errors == validate_document_structure(document_text, state.required_section)
    IN  IF is_table_only_schema(state.required_section)
        THEN [decided |-> TRUE,
              update |-> TableOnlyVerdict(document_text, state.required_section),
              calls |-> <<>>]
        ELSE IF \E i \in 1..Len(structure_errors) : structure_errors[i].kind = "Missing"
        THEN [decided |-> TRUE,
              update |-> StructureFailedVerdict(structure_errors),
              calls |-> <<"validate_document_structure">>]
        ELSE [decided |-> FALSE,
              calls |-> <<"validate_document_structure">>]

\* a gate that sends table-only documents to the review as well
StructureGate_reviews_tables(state) ==
    LET document_text == state.generated_document
        structure_errors == validate_document_structure(document_text, state.required_section)
    IN  IF Truthy(structure_errors)
        THEN [decided |-> TRUE,
              update |-> StructureFailedVerdict(structure_errors),
              calls |-> <<"validate_document_structure">>]
        ELSE [decided |-> FALSE,
              calls |-> <<"validate_document_structure">>]

\* quality_gate up to the point where the review is called: the table-only
\* branch and the structural short-circuit decide the pass on their own.
\* calls lists what the pass invoked.
StructureGate(state) ==
    LET document_text == state.generated_document
        structure_errors == validate_document_structure(document_text, state.required_section)
    IN  IF is_table_only_schema(state.required_section)
        THEN [decided |-> TRUE,
              update |-> TableOnlyVerdict(document_text, state.required_section),
              calls |-> <<>>]
        ELSE IF Truthy(structure_errors)
        THEN [decided |-> TRUE,
              update |-> StructureFailedVerdict(structure_errors),
              calls |-> <<"validate_document_structure">>]
        ELSE [decided |-> FALSE,
              calls |-> <<"validate_document_structure">>]

\* a review step whose except clause reports the failure instead of falling
\* back to the rules
ReviewGate_reports_error(state, review) ==
    LET reviewed == ReviewVerdict(review.content)
    IN  IF ~review.raises /\ reviewed.ok
        THEN [update |-> reviewed.update, calls |-> <<"llm_review">>]
        ELSE [update |-> [quality_scores |-> <<>>,
                          quality_issues |-> <<[kind |-> "LLM quality review failed"]>>,
                          quality_suggestions |-> <<>>,
                          status |-> "failed"],
              calls |-> <<"llm_review">>]

\* the rest of quality_gate when llm.invoke gives the reply `review`: the try
\* block, and the rule-based checks when anything in it raises
ReviewGate(state, review) ==
    LET reviewed == ReviewVerdict(review.content)
    IN  IF ~review.raises /\ reviewed.ok
        THEN [update |-> reviewed.update, calls |-> <<"llm_review">>]
        ELSE [update |-> RuleBasedVerdict(state.generated_document),
              calls |-> <<"llm_review">>]

(***************************************************************************)
(* Formatting helper                                                       *)
(***************************************************************************)
\* the text of one answer as format_questions_and_answers_for_prompt prints it;
\* an answer is [list |-> FALSE, v |-> string] or [list |-> TRUE, v |-> strings]
AnswerText(qa_item) ==
    LET answer_value == Get(qa_item, "answer", [list |-> FALSE, v |-> <<>>])
    IN  IF Get(qa_item, "answer_type", "None") = "structured_list"
           /\ Truthy(Get(qa_item, "answers", <<>>))
        THEN [json_dumps |-> qa_item.answers]
        ELSE IF answer_value.list
        THEN [text |-> Join(answer_value.v, <<",", " ">>)]
        ELSE [text |-> answer_value.v]

NotProvided == <<"(","n","o","t"," ","p","r","o","v","i","d","e","d",")">>

GeneralCategory == <<"G","e","n","e","r","a","l">>

\* the lines of the formatted answers; each line is a record naming its parts
RECURSIVE FormatFrom(_, _, _)
FormatFrom(qa_list, i, current_category) ==
    IF i > Len(qa_list) THEN <<>>
    ELSE LET qa_item == qa_list[i]
             category == Get(qa_item, "category", GeneralCategory)
             answer == AnswerText(qa_item)
             empty == "text" \in DOMAIN answer /\ ~Truthy(answer.text)
         IN  (IF category # current_category
              THEN <<[line |-> "### category", category |-> category]>> ELSE <<>>)
             \o <<[line |-> "**Q:**", question |-> Get(qa_item, "question", <<>>)],
                  [line |-> "**A:**",
                   answer |-> IF empty THEN [text |-> NotProvided] ELSE answer],
                  [line |-> ""]>>
             \o FormatFrom(qa_list, i + 1, category)

format_questions_and_answers_for_prompt(qa_list) == FormatFrom(qa_list, 1, <<>>)

(***************************************************************************)
(* NODE 1: analyze_schema_gaps                                             *)
(***************************************************************************)
NoGaps == [gap_questions |-> <<>>, supplementary_content |-> <<>>]

\* analyze_schema_gaps whose except clause names json.JSONDecodeError only
analyze_schema_gaps_narrow_except(state, reply) ==
    LET raw == StripFences(reply.content)
    IN  IF reply.raises THEN Raise
        ELSE IF ~JsonParses(raw) THEN Return(NoGaps)
        ELSE IF JsonValue(raw).type # "array" THEN Raise
        ELSE IF \E i \in 1..Len(JsonValue(raw).items) :
                    "question" \notin DOMAIN JsonValue(raw).items[i] THEN Raise
        ELSE IF ~Truthy(JsonValue(raw).items) THEN Return(NoGaps)
        ELSE Return([gap_questions |-> JsonValue(raw).items,
                     supplementary_content |->
                         [i \in 1..Len(JsonValue(raw).items) |->
                             [section |-> Get(JsonValue(raw).items[i], "section_covered", <<>>),
                              question |-> JsonValue(raw).items[i].question]]])

\* the node when question_gen_llm.invoke gives `reply`: the try block catches
\* every exception, so the node always returns
analyze_schema_gaps(state, reply) ==
    LET raw == StripFences(reply.content)
        parsed == JsonValue(raw)
        gap_questions == parsed.items
        \* gap_question['question'] raises KeyError when the key is absent
        complete == \A i \in 1..Len(gap_questions) : "question" \in DOMAIN gap_questions[i]
        supplementary_lines ==
            [i \in 1..Len(gap_questions) |->
                [section |-> Get(gap_questions[i], "section_covered", <<>>),
                 question |-> gap_questions[i].question]]
    IN  IF reply.raises THEN Return(NoGaps)
        ELSE IF ~JsonParses(raw) THEN Return(NoGaps)
        \* an empty JSON object is falsy too; a non-empty one is iterated as its
        \* keys, and .get on a key raises AttributeError
        ELSE IF parsed.type # "array" THEN Return(NoGaps)
        ELSE IF ~Truthy(gap_questions) THEN Return(NoGaps)
        ELSE IF ~complete THEN Return(NoGaps)
        ELSE Return([gap_questions |-> gap_questions,
                     supplementary_content |-> supplementary_lines])

(***************************************************************************)
(* NODE 2: build_prompt                                                    *)
(***************************************************************************)
\* the titles the strict section rule lists
RequiredHeadings(required_section) ==
    LET sections == Get(required_section, "sections", <<>>)
        TitlesOf(schema_section) ==
            LET sorted == SortedByOrder(Get(schema_section, "subsections", <<>>))
                titles == [i \in 1..Len(sorted) |-> Strip(Get(sorted[i], "title", <<>>))]
            IN  SelectSeq(titles, Truthy)
    IN  Concat([i \in 1..Len(sections) |-> TitlesOf(sections[i])])

\* The prompt text is kept as the arguments the template is filled with;
\* no node reads the prompt back, it is only handed to the model.
build_prompt(state) ==
    LET formatted_answers ==
            format_questions_and_answers_for_prompt(state.questions_and_answers)
        table_only == is_table_only_schema(state.required_section)
    IN  [system_prompt |->
            IF table_only
            THEN [template |-> "table_only",
                  document_type |-> get_table_section_title(state.required_section),
                  columns |-> get_table_columns(state.required_section),
                  questions_and_answers |-> formatted_answers,
                  supplementary_content |-> state.supplementary_content]
            ELSE [template |-> "system",
                  strict_rule |-> RequiredHeadings(state.required_section),
                  questions_and_answers |-> formatted_answers,
                  supplementary_content |-> state.supplementary_content],
         retry_count |-> 0,
         status |-> "generating"]

(***************************************************************************)
(* NODES 3 and 5, routing                                                  *)
(***************************************************************************)
MaxRetries == 2

\* the human_instruction generate_document sends with the prompt
HumanInstruction(state) ==
    IF is_table_only_schema(state.required_section)
    THEN [template |-> "table_only",
          table_title |-> get_table_section_title(state.required_section)]
    ELSE [template |-> "document", document_type |-> state.document_type]

\* generate_document when llm.invoke gives `reply`: the call is not guarded
generate_document(state, reply) ==
    IF reply.raises THEN Raise
    ELSE Return([generated_document |-> reply.content])

\* the two join(... for i in ...) expressions of fix_document raise TypeError
\* when quality_issues or quality_suggestions is not iterable
FixInstructionRaises(state) ==
    \/ state.quality_issues = None
    \/ Get(state, "quality_suggestions", <<>>) = None

\* fix_document that also resets the verdict
fix_document_resets_verdict(state, reply) ==
    IF FixInstructionRaises(state) \/ reply.raises THEN Raise
    ELSE Return([generated_document |-> reply.content,
                 retry_count |-> state.retry_count + 1,
                 status |-> "generating",
                 quality_issues |-> <<>>])

\* fix_document that guards the call and keeps the old text when it fails
fix_document_swallows_error(state, reply) ==
    IF FixInstructionRaises(state) THEN Raise
    ELSE IF reply.raises
    THEN Return([generated_document |-> state.generated_document,
                 retry_count |-> state.retry_count + 1])
    ELSE Return([generated_document |-> reply.content,
                 retry_count |-> state.retry_count + 1])

\* fix_document that counts every repair twice
fix_document_counts_twice(state, reply) ==
    IF FixInstructionRaises(state) \/ reply.raises THEN Raise
    ELSE Return([generated_document |-> reply.content,
                 retry_count |-> state.retry_count + 2])

\* fix_document when llm.invoke gives `reply`: neither the building of the
\* instruction nor the call is guarded
fix_document(state, reply) ==
    LET current_retry == state.retry_count + 1
    IN  IF FixInstructionRaises(state) THEN Raise
        ELSE IF reply.raises THEN Raise
        ELSE Return([generated_document |-> reply.content, retry_count |-> current_retry])

\* routing with the comparison off by one
decide_off_by_one(state) ==
    IF state.status = "passed" THEN "end"
    ELSE IF state.retry_count > MaxRetries THEN "end"
    ELSE "fix_document"

\* routing that looks at the retry counter only
decide_ignores_status(state) ==
    IF state.retry_count >= MaxRetries THEN "end"
    ELSE "fix_document"

decide_after_quality_gate(state) ==
    IF state.status = "passed" THEN "end"
    ELSE IF state.retry_count >= MaxRetries THEN "end"
    ELSE "fix_document"

(***************************************************************************)
(* Inputs of a run: schemas, answers, and the replies the model can give   *)
(***************************************************************************)
\* length of the filler paragraphs of the long sample documents
PadLen == 260

Pad(n) == [i \in 1..n |-> "x"]

Text(lines) == Join(lines, <<NL>>)

W_Plan == <<"P","l","a","n">>

W_Overview == <<"1","."," ","O","v","e","r","v","i","e","w">>

W_Goal == <<"G","o","a","l">>

W_Risks == <<"R","i","s","k","s">>

W_Log == <<"L","o","g">>

W_ID == <<"I","D">>

W_Risk == <<"R","i","s","k">>

W_Date == <<"D","a","t","e">>

\* a structured schema: one titled section with a text and a table subsection
StructuredSchema ==
    [document_name |-> W_Plan,
     sections |-> <<[title |-> W_Overview,
                     subsections |-> <<[title |-> W_Risks, type |-> "table",
                                        columns |-> <<W_ID, W_Risk>>, order |-> 2],
                                       [title |-> W_Goal, type |-> "text", order |-> 1]>>]>>]

\* a table-only schema whose section has no title (the Change Request Log pattern)
TableOnlySchema ==
    [document_name |-> W_Log,
     sections |-> <<[type |-> "table", columns |-> <<W_ID, W_Date>>, order |-> 1]>>]

Schemas == <<StructuredSchema, TableOnlySchema>>

RisksTable == <<<<"|"," ","i","d"," ","|"," ","r","i","s","k"," ","|">>,
                <<"|","-","-","-","|","-","-","-","|">>,
                <<"|"," ","1"," ","|"," ","l","a","t","e"," ","|">>>>

\* structurally valid, too short for the rule-based fallback
DocValidShort ==
    Text(<<<<"#"," ","P","l","a","n">>, <<"#","#"," ","G","o","a","l">>, <<"s","h","i","p"," ","i","t">>,
           <<"#","#"," ","R","i","s","k","s">>>> \o RisksTable)

\* structurally valid and long enough for every fallback rule
DocValidLong ==
    Text(<<<<"D","r","a","f","t">>, <<"#"," ","P","l","a","n">>, <<"#"," ","1","."," ","O","v","e","r","v","i","e","w">>,
           <<"#","#","#"," ","1",".","1"," ","G","o","a","l">>, Pad(PadLen),
           <<"#","#","#"," ","1",".","2","."," ","R","i","s","k","s">>>> \o RisksTable
         \o <<Pad(PadLen), <<"#","#","#"," ","G","o","a","l">>, <<"d","o","n","e">>>>)

\* the required heading Risks is missing
DocMissing ==
    Text(<<<<"#"," ","P","l","a","n">>, <<"#","#"," ","G","o","a","l">>, <<"s","h","i","p"," ","i","t">>>>)

\* an invented heading, and the Risks section has no table
DocExtra ==
    Text(<<<<"#","#"," ","G","o","a","l">>, <<"s","h","i","p"," ","i","t">>, <<"#","#"," ","R","i","s","k","s">>,
           <<"n","o","n","e">>, <<"#","#"," ","B","o","n","u","s">>>>)

\* a table with the columns of TableOnlySchema, prose around it
DocTable ==
    Text(<<<<"H","e","r","e"," ","i","t"," ","i","s",":">>, <<"|"," ","i","d"," ","|"," ","d","a","t","e"," ","|">>,
           <<"|","-","-","-","|","-","-","-","|">>, <<"|"," ","1"," ","|"," ","M","a","y"," ","|">>, <<"B","y","e">>>>)

\* a table with one column too few
DocTableWrong ==
    Text(<<<<"#"," ","L","o","g">>, <<"|"," ","I","D"," ","|">>, <<"|","-","-","-","|">>,
           <<"|"," ","1"," ","|">>>>)

Documents == <<DocValidShort, DocValidLong, DocMissing, DocExtra, DocTable, DocTableWrong>>

\* what llm.invoke can do in generate_document and fix_document
GenerationReplies ==
    [i \in 1..Len(Documents) |-> [raises |-> FALSE, content |-> Documents[i]]]
    \o <<[raises |-> TRUE, content |-> <<>>]>>

JsonObject(fields) == [t |-> "json", v |-> [type |-> "object", fields |-> fields]]

JsonArray(items) == [t |-> "json", v |-> [type |-> "array", items |-> items]]

TokFence == [t |-> "fence"]

TokFenceJson == [t |-> "fence_json"]

TokProse == [t |-> "prose"]

ReviewPass == JsonObject([scores |-> [structure |-> 4], overall_score |-> JsonNumber(4),
                          passed |-> TRUE, issues |-> <<[kind |-> "review", text |-> "minor"]>>,
                          suggestions |-> <<[kind |-> "suggestion", text |-> "polish"]>>])

ReviewFail == JsonObject([scores |-> [structure |-> 2], overall_score |-> JsonNumber(2),
                          passed |-> FALSE, issues |-> <<[kind |-> "review", text |-> "thin"]>>,
                          suggestions |-> <<[kind |-> "suggestion", text |-> "expand"]>>])

\* what llm.invoke can do in the review of quality_gate
ReviewReplies ==
    <<[raises |-> TRUE, content |-> <<>>],
      [raises |-> FALSE, content |-> <<TokProse>>],
      [raises |-> FALSE, content |-> <<JsonArray(<<>>)>>],
      [raises |-> FALSE, content |-> <<TokFenceJson, ReviewPass, TokFence>>],
      [raises |-> FALSE, content |-> <<TokProse, TokFence, ReviewFail, TokFence, TokProse>>],
      [raises |-> FALSE, content |-> <<ReviewFail>>],
      [raises |-> FALSE, content |-> <<JsonObject([overall_score |-> JsonNumber(2)])>>],
      [raises |-> FALSE, content |-> <<JsonObject([issues |-> <<[kind |-> "review", text |-> "nit"]>>])>>],
      [raises |-> FALSE, content |-> <<JsonObject([passed |-> FALSE, issues |-> None])>>],
      [raises |-> FALSE, content |-> <<JsonObject([passed |-> TRUE, overall_score |-> JsonNumber(1)])>>],
      [raises |-> FALSE, content |-> <<JsonObject([passed |-> FALSE, overall_score |-> JsonNumber(5),
                                                   issues |-> <<[kind |-> "review", text |-> "tone"]>>])>>],
      [raises |-> FALSE, content |-> <<JsonObject([passed |-> TRUE, overall_score |-> JsonNull])>>]>>

GapItem == [question |-> <<"W","h","i","c","h"," ","r","i","s","k","s","?">>, category |-> W_Risks,
            answer_type |-> "text", section_covered |-> W_Risks]

\* what question_gen_llm.invoke can do in analyze_schema_gaps
GapReplies ==
    <<[raises |-> TRUE, content |-> <<>>],
      [raises |-> FALSE, content |-> <<TokProse, JsonArray(<<GapItem>>)>>],
      [raises |-> FALSE, content |-> <<JsonArray(<<>>)>>],
      [raises |-> FALSE, content |-> <<TokFenceJson, JsonArray(<<GapItem>>), TokFence>>],
      [raises |-> FALSE, content |-> <<JsonArray(<<[section_covered |-> W_Goal]>>)>>]>>

Answers ==
    <<[question |-> <<"W","h","y","?">>, answer |-> [list |-> FALSE, v |-> <<"s","p","e","e","d">>],
       category |-> W_Goal, answer_type |-> "text"],
      [question |-> <<"W","h","a","t","?">>, answer |-> [list |-> FALSE, v |-> <<" "," ">>],
       category |-> W_Goal, answer_type |-> "text"]>>

(***************************************************************************)
(* Public API: run_agent and generate_single_section                       *)
(***************************************************************************)
\* initial_state of run_agent and of generate_single_section
InitialState(department, document_type, questions_and_answers, required_section) ==
    [department |-> department,
     document_type |-> document_type,
     questions_and_answers |-> questions_and_answers,
     required_section |-> required_section,
     gap_questions |-> <<>>,
     supplementary_content |-> <<>>,
     system_prompt |-> <<>>,
     generated_document |-> <<>>,
     quality_scores |-> <<>>,
     quality_issues |-> <<>>,
     quality_suggestions |-> <<>>,
     retry_count |-> 0,
     status |-> "generating"]

\* run_agent reading the retry counter under a key the state does not have
AgentResult_wrong_key(final_state) ==
    [generated_document |-> final_state.generated_document,
     gap_questions |-> final_state.gap_questions,
     status |-> final_state.status,
     quality_issues |-> final_state.quality_issues,
     quality_scores |-> final_state.quality_scores,
     quality_suggestions |-> final_state.quality_suggestions,
     retry_count |-> Get(final_state, "retries", 0)]

\* the dict run_agent returns
AgentResult(final_state) ==
    [generated_document |-> final_state.generated_document,
     gap_questions |-> final_state.gap_questions,
     status |-> final_state.status,
     quality_issues |-> final_state.quality_issues,
     quality_scores |-> final_state.quality_scores,
     quality_suggestions |-> final_state.quality_suggestions,
     retry_count |-> final_state.retry_count]

\* scoped_required_section of generate_single_section (answers are strings)
ScopedRequiredSection(section, questions_and_answers) ==
    LET Answered(qa) == Truthy(Strip(Get(qa, "answer", [list |-> FALSE, v |-> <<>>]).v))
        answered_categories ==
            {Lower(Strip(Get(questions_and_answers[i], "category", <<>>))) :
                i \in {j \in 1..Len(questions_and_answers) : Answered(questions_and_answers[j])}}
        all_subsections == Get(section, "subsections", <<>>)
        covered == SelectSeq(all_subsections,
                       LAMBDA sub : Lower(Strip(Get(sub, "title", <<>>))) \in answered_categories)
        subsections_to_use ==
            IF Truthy(all_subsections) /\ answered_categories # {}
            THEN (IF Truthy(covered) THEN covered ELSE all_subsections)
            ELSE all_subsections
    IN  [sections |-> <<[title |-> Get(section, "title", <<>>),
                         subsections |-> subsections_to_use]>>]

MemoryQuestion == <<"P","r","e","v","i","o","u","s","l","y"," ","g","e","n","e","r","a","t","e","d"," ","s","e","c","t","i","o","n","s">>

MemoryCategory == <<"_","m","e","m","o","r","y">>

\* enriched_qa of generate_single_section
EnrichedQA(questions_and_answers, doc_memory) ==
    IF Truthy(Strip(doc_memory))
    THEN <<[question |-> MemoryQuestion,
            answer |-> [list |-> FALSE, v |-> doc_memory],
            category |-> MemoryCategory,
            answer_type |-> "text"]>> \o questions_and_answers
    ELSE questions_and_answers

DocMemories == <<<<>>, <<"#"," ","I","n","t","r","o">>>>

\* qa.get("answer", "").strip() in the answered_categories comprehension
\* raises AttributeError on an answer that is a list
ScopingRaises(questions_and_answers) ==
    \E i \in 1..Len(questions_and_answers) :
        Get(questions_and_answers[i], "answer", [list |-> FALSE, v |-> <<>>]).list

\* generate_single_section up to the call of the graph: the initial_state it
\* hands to document_generation_agent.invoke, or the exception it raises
generate_single_section(department, document_type, section, questions_and_answers, doc_memory) ==
    IF ScopingRaises(questions_and_answers) THEN Raise
    ELSE Return(InitialState(department, document_type,
                    EnrichedQA(questions_and_answers, doc_memory),
                    ScopedRequiredSection(section, questions_and_answers)))

VARIABLES
    entry,      \* the public function that was called
    state,      \* the AgentState the graph threads through its nodes
    pc,         \* the node that runs next, "END", or "raised"
    trace,      \* the nodes that have run, in order
    calls,      \* the model and validator invocations made, in order
    verdicts,   \* the status each quality_gate pass returned, in order
    review,     \* index of the review reply the last quality_gate pass got, 0 if none
    gap_reply,  \* index of the reply analyze_schema_gaps got, 0 before it ran
    gen_reply,  \* index of the reply the last generation or repair call got, 0 if none
    response,   \* what the API endpoint answers once the run is over
    result,     \* what the helper called last returned (helper calls only)
    runs        \* the graph invocations in flight when two requests are served at once

vars == <<entry, state, pc, trace, calls, verdicts, review, gap_reply, gen_reply, response,
          result, runs>>

Pending == [code |-> 0]

\* no helper has been called on its own
NoResult == [op |-> "none"]

\* a single request is served
NoRuns == <<>>

Init ==
    /\ entry \in {"run_agent", "generate_single_section"}
    /\ \/ /\ entry = "run_agent"
          /\ \E s \in 1..Len(Schemas) :
                state = InitialState("Product", "Plan", Answers, Schemas[s])
       \/ /\ entry = "generate_single_section"
          /\ \E m \in 1..Len(DocMemories) :
                state = InitialState("Product", "Plan",
                            EnrichedQA(Answers, DocMemories[m]),
                            ScopedRequiredSection(StructuredSchema.sections[1], Answers))
    /\ pc = "analyze_schema_gaps"
    /\ trace = <<>>
    /\ calls = <<>>
    /\ verdicts = <<>>
    /\ review = 0
    /\ gap_reply = 0
    /\ gen_reply = 0
    /\ response = Pending
    /\ result = NoResult
    /\ runs = NoRuns

\* what the endpoint returns when the graph reaches END
Returned(final_state) ==
    IF entry = "run_agent"
    THEN [code |-> 200, body |-> AgentResult(final_state)]
    ELSE [code |-> 200, body |-> [section_text |-> final_state.generated_document]]

\* the HTTPException both endpoints raise when the agent raises
AgentError == [code |-> 500]

\* In the actions a value that is used more than once is bound with
\* \E x \in {e}, which evaluates e once.

\* run one node on the reply its model call gets: merge what it returns and
\* follow the edge to `next`, or let its exception leave the graph
RunNode(out, next) ==
    IF out.raised
    THEN /\ pc' = "raised"
         /\ response' = AgentError
         /\ UNCHANGED state
    ELSE /\ state' = Merge(state, out.update)
         /\ pc' = next
         /\ UNCHANGED response

AnalyzeSchemaGaps ==
    /\ pc = "analyze_schema_gaps"
    /\ \E g \in 1..Len(GapReplies) :
          /\ \E out \in {analyze_schema_gaps(state, GapReplies[g])} :
                RunNode(out, "build_prompt")
          /\ gap_reply' = g
    /\ trace' = Append(trace, "analyze_schema_gaps")
    /\ calls' = Append(calls, "llm_gap")
    /\ UNCHANGED <<entry, verdicts, review, gen_reply, result, runs>>

\* build_prompt wired straight to quality_gate
BuildPrompt_skips_generation ==
    /\ pc = "build_prompt"
    /\ state' = Merge(state, build_prompt(state))
    /\ pc' = "quality_gate"
    /\ trace' = Append(trace, "build_prompt")
    /\ UNCHANGED <<entry, calls, verdicts, review, gap_reply, gen_reply, response, result, runs>>

BuildPrompt ==
    /\ pc = "build_prompt"
    /\ state' = Merge(state, build_prompt(state))
    /\ pc' = "generate_document"
    /\ trace' = Append(trace, "build_prompt")
    /\ UNCHANGED <<entry, calls, verdicts, review, gap_reply, gen_reply, response, result, runs>>

GenerateDocument ==
    /\ pc = "generate_document"
    /\ \E r \in 1..Len(GenerationReplies) :
          /\ \E out \in {generate_document(state, GenerationReplies[r])} :
                RunNode(out, "quality_gate")
          /\ gen_reply' = r
    /\ trace' = Append(trace, "generate_document")
    /\ calls' = Append(calls, "llm_generate")
    /\ UNCHANGED <<entry, verdicts, review, gap_reply, result, runs>>

\* one pass of quality_gate followed by the conditional edge
QualityGate ==
    /\ pc = "quality_gate"
    /\ \E first \in {StructureGate(state)} :
       \E r \in (IF first.decided THEN {0} ELSE 1..Len(ReviewReplies)) :
       \E out \in {IF first.decided THEN first ELSE ReviewGate(state, ReviewReplies[r])} :
       \E next_state \in {Merge(state, out.update)} :
          /\ state' = next_state
          /\ calls' = (IF first.decided THEN calls ELSE calls \o first.calls) \o out.calls
          /\ review' = r
          /\ verdicts' = Append(verdicts, next_state.status)
          /\ IF decide_after_quality_gate(next_state) = "end"
             THEN pc' = "END" /\ response' = Returned(next_state)
             ELSE pc' = "fix_document" /\ UNCHANGED response
    /\ trace' = Append(trace, "quality_gate")
    /\ UNCHANGED <<entry, gap_reply, gen_reply, result, runs>>

\* llm.invoke is reached only when the instruction could be built
FixDocument ==
    /\ pc = "fix_document"
    /\ \E invoked \in {~FixInstructionRaises(state)} :
       \E r \in (IF invoked THEN 1..Len(GenerationReplies) ELSE {gen_reply}) :
          /\ \E out \in {fix_document(state, GenerationReplies[r])} :
                RunNode(out, "quality_gate")
          /\ gen_reply' = r
          /\ calls' = (IF invoked THEN Append(calls, "llm_fix") ELSE calls)
    /\ trace' = Append(trace, "fix_document")
    /\ UNCHANGED <<entry, verdicts, review, gap_reply, result, runs>>

Next ==
    \/ AnalyzeSchemaGaps
    \/ BuildPrompt
    \/ GenerateDocument
    \/ QualityGate
    \/ FixDocument

Spec == Init /\ [][Next]_vars

\* What every step of the graph runner does, whatever the node computes: it
\* runs the node pc names and records it.  Every step of Next is such a step.
RunnerStep == pc \notin {"END", "raised"} /\ trace' = Append(trace, pc)

\* The graph runs its nodes one after the other on one thread: a node that is
\* due does run, and every model call comes back (with a reply or an
\* exception).  The fairness is stated on RunnerStep, whose enabling condition
\* is the position alone.
FairSpec == Spec /\ WF_trace(RunnerStep)

(***************************************************************************)
(* The helpers called on their own                                         *)
(*                                                                         *)
(* validate_document_structure, the table-only branch of quality_gate,     *)
(* _normalise_heading and is_table_only_schema are functions of the text   *)
(* and the schema.  HelperSpec calls each of them once on a state whose    *)
(* generated_document and required_section are drawn from the sets below.  *)
(***************************************************************************)
\* the lines of `lines` whose index is in `keep`, in order
RECURSIVE PickFrom(_, _, _)
PickFrom(lines, keep, i) ==
    IF i > Len(lines) THEN <<>>
    ELSE (IF i \in keep THEN <<lines[i]>> ELSE <<>>) \o PickFrom(lines, keep, i + 1)

\* every text that keeps some of the lines of `lines`, in their order
Excerpts(lines) == {Text(PickFrom(lines, keep, 1)) : keep \in SUBSET (1..Len(lines))}

\* a table for TableOnlySchema with prose around it and two title lines
TableLines ==
    <<<<"H","e","r","e"," ","i","t"," ","i","s",":">>,
      <<"#"," ","L","o","g">>,
      <<" "," ","|"," ","i","d"," ","|"," ","d","a","t","e"," ","|">>,
      <<"|","-","-","-","|","-","-","-","|">>,
      <<"|"," ","1"," ","|"," ","M","a","y"," ","|">>,
      <<"|"," ","2"," ","|"," ","J","u","n"," ","|">>,
      <<"B","y","e">>,
      <<"#"," ","O","l","d">>>>

\* header rows with a column too few and with an empty cell
NarrowTableLines ==
    <<<<"|"," ","I","D"," ","|">>,
      <<"|"," ","i","d"," ","|"," ","|"," ","d","a","t","e"," ","|">>,
      <<"|","-","-","-","|","-","-","-","|">>,
      <<"|"," ","1"," ","|"," ","M","a","y"," ","|">>>>

\* a document for StructuredSchema with a repeated and an invented heading
PlanLines ==
    <<<<"#"," ","P","l","a","n">>,
      <<"#","#"," ","G","o","a","l">>,
      <<"s","h","i","p"," ","i","t">>,
      <<"#","#","#"," ","1",".","1"," ","G","o","a","l">>,
      <<"#","#"," ","R","i","s","k","s">>,
      <<"|"," ","i","d"," ","|"," ","r","i","s","k"," ","|">>,
      <<"|","-","-","-","|","-","-","-","|">>,
      <<"|"," ","1"," ","|"," ","l","a","t","e"," ","|">>,
      <<"#","#"," ","B","o","n","u","s">>>>

\* headings that contain, or are contained in, a required title or the document name
LooseLines ==
    <<<<"#","#"," ","G","o","a","l"," ","B","o","n","u","s">>,
      <<"#"," ","P","r","o","j","e","c","t"," ","P","l","a","n">>,
      <<"#","#"," ","R","i","s","k">>,
      <<"#","#"," ","R","i","s","k","s">>,
      <<"|"," ","I","D"," ","|">>,
      <<"|"," ","i","d"," ","|"," ","r","i","s","k"," ","|">>,
      <<"|","-","-","-","|","-","-","-","|">>,
      <<"|"," ","1"," ","|"," ","l","a","t","e"," ","|">>>>

\* ways to write the heading Goal
GoalHeadings ==
    <<<<"#","#","#"," ","1",".","1","."," ","G","o","a","l">>,
      <<"g","o","a","l">>,
      <<"#","#"," ","G","O","A","L","!">>,
      <<"#","#"," ","*","*","1",".","1"," ","G","o","a","l","*","*">>,
      <<"#","#"," ","_","G","o","a","l","_">>,
      <<"#","#"," ","R","i","s","k","s">>>>

\* a long document for StructuredSchema whose first line is a heading, with
\* filler paragraphs and a line of placeholder phrases
FallbackLines ==
    <<<<"#"," ","P","l","a","n">>,
      <<"#","#"," ","G","o","a","l">>,
      Pad(PadLen),
      <<"#","#","#"," ","1",".","1"," ","G","o","a","l">>,
      <<"#","#"," ","R","i","s","k","s">>,
      Text(RisksTable),
      Pad(PadLen),
      <<"#","#","#"," ","G","o","a","l">>,
      <<"T","B","D",":"," ","[","I","n","s","e","r","t"," ","d","a","t","e","]">>>>

\* a table-only schema whose section has a title; title and columns carry
\* surrounding blanks
TitledTableSchema ==
    [document_type |-> W_Plan,
     sections |-> <<[title |-> <<" ">> \o W_Risks \o <<" ">>, type |-> "table",
                     columns |-> <<<<" ">> \o W_ID, W_Date \o <<" ">>>>,
                     subsections |-> <<>>]>>]

\* a structured schema whose only required title is numbered and punctuated
NumberedSchema ==
    [document_type |-> W_Plan,
     sections |-> <<[title |-> W_Overview,
                     subsections |-> <<[title |-> <<"4",".","1","."," ">> \o W_Goal \o <<"!">>,
                                        type |-> "text"]>>]>>]

\* the shapes a top-level section can have
SectionShapes ==
    {[type |-> "table", columns |-> <<W_ID>>],
     [type |-> "table", columns |-> <<W_ID>>, subsections |-> <<>>],
     [type |-> "table", title |-> W_Risks, subsections |-> <<[title |-> W_Goal, type |-> "text"]>>],
     [type |-> "text", title |-> W_Goal],
     [title |-> W_Goal, subsections |-> <<>>]}

\* schemas with no section list, an empty one, and one or two sections
ShapeSchemas ==
    {[document_name |-> W_Log], [document_name |-> W_Log, sections |-> <<>>]}
    \cup {[document_name |-> W_Log, sections |-> <<a>>] : a \in SectionShapes}
    \cup {[document_name |-> W_Log, sections |-> <<a, b>>] : a, b \in SectionShapes}

\* the (text, schema) pairs the helpers are called on
HelperInputs ==
    ((Excerpts(TableLines) \cup Excerpts(NarrowTableLines))
        \X {TableOnlySchema, TitledTableSchema})
    \cup ((Excerpts(PlanLines) \cup Excerpts(LooseLines) \cup Excerpts(FallbackLines))
        \X {StructuredSchema})
    \cup (Excerpts(GoalHeadings) \X {StructuredSchema, NumberedSchema})
    \cup ({Documents[i] : i \in 1..Len(Documents)}
        \X {StructuredSchema, TableOnlySchema, TitledTableSchema, NumberedSchema})
    \cup ({<<>>, Text(LooseLines)} \X ShapeSchemas)

HelperInit ==
    /\ entry = "helpers"
    /\ \E input \in HelperInputs :
          state = [InitialState("Product", "Plan", Answers, input[2])
                       EXCEPT !.generated_document = input[1]]
    /\ pc = "helpers"
    /\ trace = <<>>
    /\ calls = <<>>
    /\ verdicts = <<>>
    /\ review = 0
    /\ gap_reply = 0
    /\ gen_reply = 0
    /\ response = Pending
    /\ result = NoResult
    /\ runs = NoRuns

\* what a helper call leaves alone when it only returns a value
HelperFrame == UNCHANGED <<entry, state, pc, trace, calls, verdicts, review, gap_reply,
                           gen_reply, response, runs>>

CallValidate ==
    /\ pc = "helpers" /\ result = NoResult
    /\ result' = [op |-> "validate_document_structure",
                  errors |-> validate_document_structure(state.generated_document,
                                                         state.required_section)]
    /\ HelperFrame

\* the table-only branch of quality_gate: the graph merges what it returns
CallTableGate ==
    /\ pc = "helpers" /\ result = NoResult
    /\ is_table_only_schema(state.required_section)
    /\ \E first \in {StructureGate(state)} :
          /\ state' = Merge(state, first.update)
          /\ result' = [op |-> "quality_gate", document_text |-> state.generated_document,
                        calls |-> first.calls]
    /\ UNCHANGED <<entry, pc, trace, calls, verdicts, review, gap_reply, gen_reply, response,
                   runs>>

\* _normalise_heading on every line of the text
CallNormalise ==
    /\ pc = "helpers" /\ result = NoResult
    /\ \E raw \in {Split(state.generated_document, NL)} :
          result' = [op |-> "_normalise_heading", raw |-> raw,
                     norm |-> [i \in 1..Len(raw) |-> _normalise_heading(raw[i])]]
    /\ HelperFrame

\* is_table_only_schema and the branch each of its callers takes
CallIsTableOnly ==
    /\ pc = "helpers" /\ result = NoResult
    /\ result' = [op |-> "is_table_only_schema",
                  value |-> is_table_only_schema(state.required_section),
                  prompt |-> build_prompt(state).system_prompt.template,
                  instruction |-> HumanInstruction(state).template,
                  gate |-> StructureGate(state),
                  errors |-> validate_document_structure(state.generated_document,
                                                         state.required_section)]
    /\ HelperFrame

\* the reply of a review call that raises
ReviewRaises == [raises |-> TRUE, content |-> <<>>]

\* quality_gate on a document that passes the structural checks, when the
\* review call raises: the rule-based checks decide
CallFallbackGate ==
    /\ pc = "helpers" /\ result = NoResult
    /\ \E first \in {StructureGate(state)} :
          /\ ~first.decided
          /\ \E out \in {ReviewGate(state, ReviewRaises)} :
                /\ state' = Merge(state, out.update)
                /\ result' = [op |-> "quality_gate_fallback",
                              document_text |-> state.generated_document,
                              calls |-> first.calls \o out.calls]
    /\ UNCHANGED <<entry, pc, trace, calls, verdicts, review, gap_reply, gen_reply, response,
                   runs>>

\* answer lists a caller of generate_single_section can send: text answers,
\* a multi-select answer given as a list, categories that match a subsection
\* title, match it up to case and blanks, or match none
SectionAnswerLists ==
    {Answers,
     <<>>,
     <<[question |-> <<"W","h","o","?">>,
        answer |-> [list |-> TRUE, v |-> <<<<"o","p","s">>, <<"d","e","v">>>>],
        category |-> W_Goal, answer_type |-> "multi_select"]>>,
     <<[question |-> <<"W","h","y","?">>, answer |-> [list |-> FALSE, v |-> <<"l","a","t","e">>],
        category |-> <<" ","r","i","s","k","s"," ">>, answer_type |-> "text"]>>,
     <<[question |-> <<"W","h","y","?">>, answer |-> [list |-> FALSE, v |-> <<"l","a","t","e">>],
        category |-> W_Date, answer_type |-> "text"]>>}

\* doc_memory values: absent, blank, and a previous section
SectionMemories == {<<>>, <<" ", NL>>, DocMemories[2]}

\* generate_single_section on the first section of the schema, before any
\* document exists
CallGenerateSingleSection ==
    /\ pc = "helpers" /\ result = NoResult
    /\ state.generated_document = <<>>
    /\ Truthy(Get(state.required_section, "sections", <<>>))
    /\ \E questions_and_answers \in SectionAnswerLists, doc_memory \in SectionMemories :
          result' = [op |-> "generate_single_section",
                     section |-> state.required_section.sections[1],
                     questions_and_answers |-> questions_and_answers,
                     doc_memory |-> doc_memory,
                     out |-> generate_single_section(state.department, state.document_type,
                                 state.required_section.sections[1],
                                 questions_and_answers, doc_memory)]
    /\ HelperFrame

\* a document whose headings are the given titles, one level-2 heading each
HeadingDocument(titles) == Text([i \in 1..Len(titles) |-> <<"#", "#", " ">> \o titles[i]])

\* build_prompt before any document exists, and the validator on a document
\* that has the headings the prompt lists
CallBuildPrompt ==
    /\ pc = "helpers" /\ result = NoResult
    /\ state.generated_document = <<>>
    /\ \E out \in {build_prompt(state)} :
       \E document \in {HeadingDocument(Get(out.system_prompt, "strict_rule", <<>>))} :
          /\ state' = Merge(state, out)
          /\ result' = [op |-> "build_prompt",
                        document |-> document,
                        errors |-> validate_document_structure(document,
                                                               state.required_section)]
    /\ UNCHANGED <<entry, pc, trace, calls, verdicts, review, gap_reply, gen_reply, response,
                   runs>>

HelperNext ==
    \/ CallBuildPrompt
    \/ CallGenerateSingleSection
    \/ CallValidate
    \/ CallTableGate
    \/ CallNormalise
    \/ CallIsTableOnly
    \/ CallFallbackGate

HelperSpec == HelperInit /\ [][HelperNext]_vars

(***************************************************************************)
(* Two requests served at once                                             *)
(*                                                                         *)
(* Both endpoints build a fresh initial_state and hand it to               *)
(* document_generation_agent.invoke on a worker thread (asyncio.to_thread),*)
(* so the nodes of two invocations interleave.  runs maps each invocation  *)
(* to its own state and position; replies records what each of its model   *)
(* calls got, so that the same invocation can be replayed on its own.      *)
(***************************************************************************)
\* the edge that leaves a node which returned or raised `out`: on to `next`
\* with the update merged, or out of the graph with the exception
AfterNode(st, out, next) ==
    IF out.raised THEN [state |-> st, pc |-> "raised"]
    ELSE [state |-> Merge(st, out.update), pc |-> next]

\* what quality_gate returns: the verdict decided before the review, or the
\* one the review call with reply i leads to
GateUpdate(st, first, i) ==
    IF first.decided THEN first.update ELSE ReviewGate(st, ReviewReplies[i]).update

\* the conditional edge that leaves quality_gate
AfterGateNode(next_state) ==
    [state |-> next_state,
     pc |-> IF decide_after_quality_gate(next_state) = "end" THEN "END" ELSE "fix_document"]

\* one node of the compiled graph on state st, followed by the edge that
\* leaves it; i is the index of the reply the node's model call gets
GraphStep(st, node, i) ==
    CASE node = "analyze_schema_gaps" ->
            AfterNode(st, analyze_schema_gaps(st, GapReplies[i]), "build_prompt")
      [] node = "build_prompt" ->
            [state |-> Merge(st, build_prompt(st)), pc |-> "generate_document"]
      [] node = "generate_document" ->
            AfterNode(st, generate_document(st, GenerationReplies[i]), "quality_gate")
      [] node = "quality_gate" ->
            AfterGateNode(Merge(st, GateUpdate(st, StructureGate(st), i)))
      [] node = "fix_document" ->
            AfterNode(st, fix_document(st, GenerationReplies[i]), "quality_gate")

\* the replies the two-request runs draw from: indices into GapReplies,
\* GenerationReplies and ReviewReplies
ConcurrentGapReplies == {4}

ConcurrentGenerationReplies == {1, 5, 7}

ConcurrentReviewReplies == {1, 4}

\* the replies the model call of `node` can get on state st; a node that
\* makes no model call takes the index 1, which it does not read
RepliesFor(st, node) ==
    CASE node = "analyze_schema_gaps" -> ConcurrentGapReplies
      [] node = "build_prompt" -> {1}
      [] node = "generate_document" -> ConcurrentGenerationReplies
      [] node = "quality_gate" ->
            IF StructureGate(st).decided THEN {1} ELSE ConcurrentReviewReplies
      [] node = "fix_document" ->
            IF FixInstructionRaises(st) THEN {1} ELSE ConcurrentGenerationReplies

\* the requests a client can send: each is the endpoint and its initial_state
ConcurrentRequests ==
    {[entry |-> "run_agent",
      state |-> InitialState("Product", "Plan", Answers, TableOnlySchema)],
     [entry |-> "generate_single_section",
      state |-> InitialState("Product", "Plan", EnrichedQA(Answers, DocMemories[2]),
                    ScopedRequiredSection(StructuredSchema.sections[1], Answers))]}

RunIds == {1, 2}

\* an invocation that has not run a node yet
FreshRun(request) ==
    [entry |-> request.entry, initial |-> request.state, state |-> request.state,
     pc |-> "analyze_schema_gaps", replies |-> <<>>, overlapped |-> FALSE]

Finished(run) == run.pc \in {"END", "raised"}

\* between its first node and its end
InFlight(run) == run.replies # <<>> /\ ~Finished(run)

\* what the endpoint of a finished invocation answers
RunResult(run) ==
    IF run.pc = "raised" THEN AgentError
    ELSE IF run.entry = "run_agent"
    THEN [code |-> 200, body |-> AgentResult(run.state)]
    ELSE [code |-> 200, body |-> [section_text |-> run.state.generated_document]]

\* every invocation writes into the state of every invocation
MergeIntoRun_shared_state(all_runs, r, stepped) ==
    [q \in DOMAIN all_runs |->
        IF q = r THEN stepped ELSE [all_runs[q] EXCEPT !.state = stepped.state]]

\* the graph runner merges what a node returned into the state dict of the
\* invocation the node ran in; the other invocations' dicts are other objects
MergeIntoRun(all_runs, r, stepped) == [all_runs EXCEPT ![r] = stepped]

ConcurrentInit ==
    /\ entry = "concurrent"
    /\ state = InitialState("Product", "Plan", Answers, StructuredSchema)
    /\ pc = "concurrent"
    /\ trace = <<>>
    /\ calls = <<>>
    /\ verdicts = <<>>
    /\ review = 0
    /\ gap_reply = 0
    /\ gen_reply = 0
    /\ response = Pending
    /\ result = NoResult
    /\ runs \in [RunIds -> {FreshRun(request) : request \in ConcurrentRequests}]

\* one invocation runs its next node
RunStep ==
    /\ pc = "concurrent"
    /\ \E r \in DOMAIN runs :
          /\ ~Finished(runs[r])
          /\ \E i \in RepliesFor(runs[r].state, runs[r].pc) :
             \E stepped \in {GraphStep(runs[r].state, runs[r].pc, i)} :
                runs' = MergeIntoRun(runs, r,
                            [runs[r] EXCEPT
                                !.state = stepped.state,
                                !.pc = stepped.pc,
                                !.replies = Append(@, i),
                                !.overlapped =
                                    @ \/ \E q \in DOMAIN runs \ {r} : InFlight(runs[q])])
    /\ UNCHANGED <<entry, state, pc, trace, calls, verdicts, review, gap_reply, gen_reply,
                   response, result>>

ConcurrentNext == RunStep

ConcurrentSpec == ConcurrentInit /\ [][ConcurrentNext]_vars

(***************************************************************************)
(* Properties                                                              *)
(***************************************************************************)
\* number of occurrences of x in seq
Count(seq, x) == Cardinality({i \in 1..Len(seq) : seq[i] = x})

Last(seq) == seq[Len(seq)]

GenerationCalls == Count(calls, "llm_generate") + Count(calls, "llm_fix")

AllFailed == \A i \in 1..Len(verdicts) : verdicts[i] = "failed"

\* the state right after a quality_gate pass
AfterGate == Len(trace) > 0 /\ Last(trace) = "quality_gate"

\* the last generate_document or fix_document model call raised
GenerationCallRaised ==
    /\ gen_reply # 0
    /\ GenerationReplies[gen_reply].raises

\* C1: a run in which every quality_gate pass returns failed and no
\* generation call raises does not stop before its third pass, stops at END
\* after the third, and has then made exactly one generate_document call and
\* two fix_document calls and ends with status = failed and retry_count = 2.
C1_AlwaysFailedRun ==
    (AllFailed /\ ~GenerationCallRaised) =>
        /\ pc # "raised"
        /\ (pc = "END") <=> (Len(verdicts) = MaxRetries + 1)
        /\ Len(verdicts) <= MaxRetries + 1
        /\ pc = "END" =>
              /\ Count(calls, "llm_generate") = 1
              /\ Count(calls, "llm_fix") = 2
              /\ GenerationCalls = 3
              /\ state.status = "failed"
              /\ state.retry_count = 2

\* C2: no run goes round the fix_document -> quality_gate loop more than
\* twice, and every run in which the generation calls return reaches END.
C2_Terminates ==
    /\ [](Count(trace, "fix_document") <= 2)
    /\ ([](~GenerationCallRaised)) => <>(pc = "END")

\* C3: at most 3 generation calls are made, the structural validator runs at
\* most once per generation call, and exactly one quality_gate pass follows
\* each text a generation call returned.
C3_CallBounds ==
    LET texts == GenerationCalls - (IF GenerationCallRaised THEN 1 ELSE 0)
        passes == Count(trace, "quality_gate")
    IN  /\ GenerationCalls <= 3
        /\ Count(calls, "validate_document_structure") <= GenerationCalls
        /\ Count(calls, "validate_document_structure") <= passes
        /\ passes = (IF pc = "quality_gate" THEN texts - 1 ELSE texts)

C3_Witness ==
    /\ GenerationCalls = 3
    /\ Count(calls, "validate_document_structure") = 3
    /\ Count(trace, "quality_gate") = 3

\* C4: after a quality_gate pass the next node is fix_document exactly when
\* status = failed and retry_count < 2; otherwise the run is at END, with no
\* repair call after a passed verdict and with the failed verdict kept when
\* the retries are used up.
C4_Routing ==
    AfterGate =>
        /\ pc \in {"fix_document", "END"}
        /\ (pc = "fix_document") <=> (state.status = "failed" /\ state.retry_count < 2)
        /\ (state.status = "passed") =>
              (pc = "END" /\ Count(calls, "llm_fix") = state.retry_count)
        /\ (state.status = "failed" /\ state.retry_count >= 2) =>
              /\ pc = "END"
              /\ Last(verdicts) = "failed"
              /\ (entry = "run_agent" => response.body.status = "failed")

C4_Witness ==
    /\ AfterGate
    /\ pc = "fix_document"
    /\ state.retry_count = 1
    /\ state.status = "failed"

\* C5: when run_agent returns, the status it returns is passed or failed, and
\* it is failed only together with retry_count = 2.
C5_ReturnedStatus ==
    (entry = "run_agent" /\ response.code = 200) =>
        /\ response.body.status \in {"passed", "failed"}
        /\ response.body.status = state.status
        /\ (response.body.status = "failed") => (response.body.retry_count = 2)

C5_Witness ==
    /\ entry = "run_agent"
    /\ response.code = 200
    /\ response.body.status = "failed"
    /\ response.body.retry_count = 2

\* the fields of the state fix_document does not return
FixFrame ==
    <<state.status, state.quality_issues, state.quality_scores,
      state.quality_suggestions, state.system_prompt, state.gap_questions,
      state.supplementary_content, state.required_section,
      state.questions_and_answers>>

\* C6: a fix_document step that returns replaces generated_document by the
\* model's reply, adds exactly 1 to retry_count, runs no validator or review,
\* and leaves status, the quality fields, the prompt and gap_questions alone.
C6_FixFrame ==
    [][(pc = "fix_document" /\ pc' = "quality_gate") =>
          /\ state'.generated_document = GenerationReplies[gen_reply'].content
          /\ state'.retry_count = state.retry_count + 1
          /\ FixFrame' = FixFrame
          /\ calls' = Append(calls, "llm_fix")
          /\ verdicts' = verdicts]_vars

C6_Witness ==
    /\ Len(trace) > 0
    /\ Last(trace) = "fix_document"
    /\ pc = "quality_gate"
    /\ state.status = "failed"
    /\ Truthy(state.quality_issues)
    /\ state.retry_count = 2

\* the gap-analysis call threw or its reply is not JSON
GapCallFailed ==
    /\ gap_reply # 0
    /\ \/ GapReplies[gap_reply].raises
       \/ ~JsonParses(StripFences(GapReplies[gap_reply].content))

\* C7: when the gap-analysis call throws or its reply cannot be parsed, the
\* node returns gap_questions = [] and supplementary_content = "", the run goes
\* on to build_prompt (it can raise only later), and run_agent returns
\* gap_questions = [].
C7_GapFailureAbsorbed ==
    GapCallFailed =>
        /\ state.gap_questions = <<>>
        /\ state.supplementary_content = <<>>
        /\ Len(trace) = 1 => pc = "build_prompt"
        /\ pc = "raised" => Count(trace, "build_prompt") = 1
        /\ (entry = "run_agent" /\ response.code = 200) =>
              response.body.gap_questions = <<>>

C7_Witness ==
    /\ GapCallFailed
    /\ entry = "run_agent"
    /\ response.code = 200
    /\ response.body.gap_questions = <<>>
    /\ Count(trace, "build_prompt") = 1
    /\ Count(trace, "generate_document") = 1
    /\ Count(trace, "quality_gate") >= 1

\* C8: when the model call of generate_document or fix_document raises, the
\* run is over with the exception: no quality_gate pass follows, no node runs
\* afterwards, and the endpoint answers with the error, not with a result.
C8_GenerationErrorPropagates ==
    /\ [](GenerationCallRaised =>
            /\ pc = "raised"
            /\ Last(trace) \in {"generate_document", "fix_document"}
            /\ response = AgentError
            /\ "body" \notin DOMAIN response)
    /\ [][pc # "raised"]_vars

C8_Witness ==
    /\ GenerationCallRaised
    /\ pc = "raised"
    /\ Last(trace) = "fix_document"
    /\ entry = "generate_single_section"

\* the review call raised, or its reply is not the JSON object asked for
ReviewUnusable ==
    /\ review # 0
    /\ \/ ReviewReplies[review].raises
       \/ ~JsonParses(StripFences(ReviewReplies[review].content))
       \/ JsonValue(StripFences(ReviewReplies[review].content)).type # "object"

\* C9: on the structured path, when the review call raises or its reply is
\* not the expected JSON, the pass returns the verdict of the rule-based
\* checks: status is passed or failed, the issues are those of the rules, and
\* the run has not raised.
C9_ReviewFallback ==
    (AfterGate /\ ReviewUnusable) =>
        /\ pc \in {"fix_document", "END"}
        /\ state.status \in {"passed", "failed"}
        /\ state.quality_issues = RuleBasedIssues(state.generated_document)
        /\ (state.status = "passed") <=> (state.quality_issues = <<>>)
        /\ state.quality_scores = <<>>
        /\ state.quality_suggestions = <<>>

C9_Witness ==
    /\ AfterGate
    /\ ReviewUnusable
    /\ ReviewReplies[review].raises
    /\ state.status = "passed"
    /\ pc = "END"

\* C10: on the structured path, a pass whose validator run returns errors
\* ends with status = failed, quality_scores = {structure: 1} and
\* quality_issues equal to the validator's errors, and calls no review; a
\* review call is always preceded by a validator run that found no error.
C10_StructureShortCircuit ==
    /\ (AfterGate /\ ~is_table_only_schema(state.required_section)) =>
          LET structure_errors ==
                  validate_document_structure(state.generated_document,
                                              state.required_section)
          IN  /\ Truthy(structure_errors) =>
                    /\ state.status = "failed"
                    /\ state.quality_scores = [structure |-> 1]
                    /\ state.quality_issues = structure_errors
                    /\ review = 0
                    /\ Last(calls) = "validate_document_structure"
              /\ review # 0 => ~Truthy(structure_errors)
    /\ \A i \in 1..Len(calls) :
          calls[i] = "llm_review" =>
              (i > 1 /\ calls[i - 1] = "validate_document_structure")

C10_Witness ==
    /\ AfterGate
    /\ ~is_table_only_schema(state.required_section)
    /\ state.status = "failed"
    /\ state.quality_scores = [structure |-> 1]
    /\ Len(state.quality_issues) >= 2
    /\ review = 0

\* the pipe-lines of the text the table-only gate was called on
GatePipeLines == PipeLines(Split(result.document_text, NL))

\* a list of column names, each trimmed and lower-cased
TrimLower(cols) == [i \in 1..Len(cols) |-> Strip(Lower(cols[i]))]

\* the gate got as far as comparing the columns
ColumnsCompared == result.op = "quality_gate" /\ Len(GatePipeLines) >= MinTableLines

IsSeparatorLine(line) ==
    /\ \A i \in 1..Len(line) : line[i] \in {"|", "-", ":", " "}
    /\ \E i \in 1..Len(line) : line[i] = "-"

\* C12: on the table-only path the gate returns passed only if the text has at
\* least 3 pipe-lines forming a header row, a separator row and at least one
\* data row; otherwise it returns failed with an issue that gives the
\* required columns.
C12_TableShape ==
    result.op = "quality_gate" =>
        /\ (state.status = "passed") =>
              /\ Len(GatePipeLines) >= 3
              /\ ~IsSeparatorLine(GatePipeLines[1])
              /\ IsSeparatorLine(GatePipeLines[2])
              /\ \E i \in 3..Len(GatePipeLines) : ~IsSeparatorLine(GatePipeLines[i])
        /\ (state.status # "passed") =>
              /\ state.status = "failed"
              /\ Len(state.quality_issues) = 1
              /\ state.quality_issues[1].expected = get_table_columns(state.required_section)

\* the first line of the text that is a `# Title` line, or `# ` plus the
\* table title when there is none
LeadingTitleLine ==
    LET lines == Split(result.document_text, NL)
        stripped == [i \in 1..Len(lines) |-> Strip(lines[i])]
        titles == SelectSeq(stripped, LAMBDA l : StartsWith(l, <<"#", " ">>))
    IN  IF Len(titles) > 0 THEN titles[1]
        ELSE <<"#", " ">> \o get_table_section_title(state.required_section)

\* C13: when table-only validation succeeds, generated_document becomes the
\* leading `# Title` line of the text (or `# ` plus the table title), then the
\* pipe-lines of the text in their order, and no other line of the text;
\* status is passed and quality_scores is {structure: 5, completeness: 5}.
C13_TableRewrite ==
    (result.op = "quality_gate" /\ state.status = "passed") =>
        /\ Split(state.generated_document, NL)
              = <<LeadingTitleLine, <<>>>> \o GatePipeLines \o <<<<>>>>
        /\ state.quality_scores = [structure |-> 5, completeness |-> 5]

\* validate_document_structure was called with a structured schema
ValidatedStructured ==
    /\ result.op = "validate_document_structure"
    /\ ~is_table_only_schema(state.required_section)
    /\ Len(ExpectedSections(state.required_section)) > 0

\* the headings of the validated text and the expected entries of its schema
Headings == DocHeadings(Split(state.generated_document, NL))

Expected == ExpectedSections(state.required_section)

\* the errors as a set
Errors == {result.errors[i] : i \in 1..Len(result.errors)}

\* substring containment in either direction
EitherContains(a, b) == IsSubstr(a, b) \/ IsSubstr(b, a)

\* C14: a document the validator accepts contains each required heading
\* exactly once and no heading other than the required titles, the document
\* name or type and the parent-section titles.
C14_AcceptedDocuments ==
    (ValidatedStructured /\ result.errors = <<>>) =>
        /\ \A e \in 1..Len(Expected) :
              Cardinality({h \in 1..Len(Headings) :
                              Headings[h].norm = _normalise_heading(Expected[e].title)}) = 1
        /\ \A h \in 1..Len(Headings) :
              Headings[h].norm \in
                  {_normalise_heading(Expected[e].title) : e \in 1..Len(Expected)}
                  \cup SkipHeadings(state.required_section)

\* C15 as claimed: a Missing error is emitted for an expected title exactly
\* when no heading's normalised form contains, or is contained by, the
\* title's normalised form.
C15_MissingEitherDirection ==
    ValidatedStructured =>
        \A e \in 1..Len(Expected) :
            ([kind |-> "Missing", title |-> Expected[e].title] \in Errors)
            <=> ~\E h \in 1..Len(Headings) :
                    EitherContains(_normalise_heading(Expected[e].title), Headings[h].norm)

\* C15: a Missing error naming an expected title is emitted exactly when no
\* heading's normalised form contains the title's normalised form; a document
\* with the heading Goal only, against the titles Goal and Risks, gets the
\* Missing error for Risks.
C15_MissingSections ==
    ValidatedStructured =>
        /\ \A e \in 1..Len(Expected) :
              ([kind |-> "Missing", title |-> Expected[e].title] \in Errors)
              <=> ~\E h \in 1..Len(Headings) :
                      IsSubstr(_normalise_heading(Expected[e].title), Headings[h].norm)
        /\ (state.required_section = StructuredSchema
            /\ state.generated_document = <<"#","#"," ">> \o W_Goal) =>
              result.errors = <<[kind |-> "Missing", title |-> W_Risks]>>

C15_Witness ==
    /\ ValidatedStructured
    /\ [kind |-> "Missing", title |-> W_Risks] \in Errors
    /\ \E h \in 1..Len(Headings) : Headings[h].norm = Lower(W_Risk)

\* no allowlist entry matches the heading, in either direction
MatchesNoTitle(heading) ==
    \A e \in 1..Len(Expected) :
        ~EitherContains(_normalise_heading(Expected[e].title), heading.norm)

\* C16 as claimed: an Extra error naming the raw heading is emitted exactly
\* when the heading matches no allowlist entry by containment in either
\* direction and its normalised form is not an entry of the skip-list.
C16_ExtraSkipByMembership ==
    ValidatedStructured =>
        \A h \in 1..Len(Headings) :
            ([kind |-> "Extra", raw |-> Headings[h].raw] \in Errors)
            <=> (/\ MatchesNoTitle(Headings[h])
                 /\ Headings[h].norm \notin SkipHeadings(state.required_section))

\* C16: an Extra error naming the raw heading is emitted exactly when the
\* heading matches, by containment in either direction, neither an allowlist
\* entry nor an entry of the skip-list (the normalised document name, document
\* type and parent-section titles).
C16_ExtraSections ==
    ValidatedStructured =>
        \A h \in 1..Len(Headings) :
            ([kind |-> "Extra", raw |-> Headings[h].raw] \in Errors)
            <=> (/\ MatchesNoTitle(Headings[h])
                 /\ \A skip \in SkipHeadings(state.required_section) :
                       ~EitherContains(skip, Headings[h].norm))

C16_Witness ==
    /\ ValidatedStructured
    /\ \E h \in 1..Len(Headings) :
          /\ MatchesNoTitle(Headings[h])
          /\ Headings[h].norm \notin SkipHeadings(state.required_section)
          /\ [kind |-> "Extra", raw |-> Headings[h].raw] \notin Errors
    /\ \E h \in 1..Len(Headings) : [kind |-> "Extra", raw |-> Headings[h].raw] \in Errors

\* the expected entries of type table whose title some heading contains
FoundTables ==
    {e \in 1..Len(Expected) :
        /\ Expected[e].type = "table"
        /\ \E h \in 1..Len(Headings) :
              IsSubstr(_normalise_heading(Expected[e].title), Headings[h].norm)}

\* the pipe-lines between the first heading that contains the title of entry e
\* and the next heading
BlockPipeLines(e) ==
    LET key == _normalise_heading(Expected[e].title)
        first == CHOOSE h \in 1..Len(Headings) :
                     /\ IsSubstr(key, Headings[h].norm)
                     /\ \A g \in 1..(h - 1) : ~IsSubstr(key, Headings[g].norm)
        lines == Split(state.generated_document, NL)
        last_line == IF first < Len(Headings) THEN Headings[first + 1].idx - 1
                     ELSE Len(lines)
    IN  PipeLines(Slice(lines, Headings[first].idx, last_line))

\* C17: for an expected table entry whose heading is found, the validator
\* reports no table error only if the block under the heading has a
\* pipe-delimited table with a separator row and, when the schema lists
\* columns, a header row whose cells equal them case-insensitively; a column
\* mismatch error names the expected and the actual columns.
C17_TableContent ==
    ValidatedStructured =>
        \A e \in FoundTables :
            LET pipes == BlockPipeLines(e)
                mine == {err \in Errors : err.kind = "Section" /\ err.title = Expected[e].title}
            IN  /\ (mine = {}) =>
                      /\ \E i \in 1..Len(pipes) : IsSeparatorLine(pipes[i])
                      /\ Len(Expected[e].columns) > 0 =>
                            LowerAll(RowCells(pipes[1])) = LowerAll(Expected[e].columns)
                /\ \A err \in mine :
                      err.what = "has wrong table columns" =>
                          /\ err.expected = Expected[e].columns
                          /\ err.actual = RowCells(pipes[1])

\* spellings of the heading Goal that differ in '#' markers, numeric prefix,
\* punctuation and letter case only
GoalSpellings ==
    {GoalHeadings[i] : i \in 1..5} \cup {NumberedSchema.sections[1].subsections[1].title}

\* C19: headings that differ only in leading '#' markers, a numeric prefix,
\* punctuation and letter case normalise to the same string, and the
\* validator's allowlist matching treats them as the same heading.
C19_NormaliseEquivalence ==
    /\ result.op = "_normalise_heading" =>
          \A i \in 1..Len(result.raw) :
              result.raw[i] \in GoalSpellings => result.norm[i] = Lower(W_Goal)
    /\ ValidatedStructured =>
          LET lines == Split(state.generated_document, NL)
          IN  \A e \in 1..Len(Expected), h \in 1..Len(Headings) :
                  (/\ Expected[e].title \in GoalSpellings \cup {W_Goal}
                   /\ lines[Headings[h].idx] \in GoalSpellings) =>
                      /\ [kind |-> "Missing", title |-> Expected[e].title] \notin Errors
                      /\ [kind |-> "Extra", raw |-> Headings[h].raw] \notin Errors

\* C20: is_table_only_schema is true exactly when the section list is
\* non-empty and every top-level section has type "table" and empty or absent
\* subsections; build_prompt, generate_document, quality_gate and
\* validate_document_structure take their table-only branch on exactly the
\* same schemas.
C20_TableOnlyPredicate ==
    result.op = "is_table_only_schema" =>
        LET schema == state.required_section
            sections == IF "sections" \in DOMAIN schema THEN schema.sections ELSE <<>>
            claimed ==
                /\ Len(sections) > 0
                /\ \A i \in 1..Len(sections) :
                      /\ "type" \in DOMAIN sections[i]
                      /\ sections[i].type = "table"
                      /\ \/ "subsections" \notin DOMAIN sections[i]
                         \/ sections[i].subsections = <<>>
        IN  /\ result.value = claimed
            /\ (result.prompt = "table_only") = claimed
            /\ (result.instruction = "table_only") = claimed
            /\ (result.gate.decided /\ result.gate.calls = <<>>) = claimed
            /\ claimed => result.errors = <<>>
            /\ (~claimed /\ state.generated_document = <<>> /\ Len(Expected) > 0) =>
                  result.errors # <<>>

C20_Witness ==
    /\ result.op = "is_table_only_schema"
    /\ result.value
    /\ Len(state.required_section.sections) = 2
    /\ result.prompt = "table_only"
    /\ result.gate.update.status = "failed"

\* an answer item whose answer is the empty string or white space only
Unanswered(qa_item) ==
    /\ ~Get(qa_item, "answer", [list |-> FALSE, v |-> <<>>]).list
    /\ ~Truthy(Strip(Get(qa_item, "answer", [list |-> FALSE, v |-> <<>>]).v))

PromptBuilt == Count(trace, "build_prompt") > 0

\* C21: once build_prompt has run, the formatted answers of the prompt hold
\* no question line for an answer item whose answer is empty or white space
\* only.
C21_BlankAnswersExcluded ==
    PromptBuilt =>
        \A i \in 1..Len(state.questions_and_answers) :
            Unanswered(state.questions_and_answers[i]) =>
                \A k \in 1..Len(state.system_prompt.questions_and_answers) :
                    LET line == state.system_prompt.questions_and_answers[k]
                    IN  line.line = "**Q:**" =>
                            line.question # state.questions_and_answers[i].question

\* the lines of the checked text that are headings: a '#' in the first column
FallbackHeadingLines ==
    SelectSeq(Split(result.document_text, NL), LAMBDA l : StartsWith(l, <<"#">>))

\* the placeholder phrases the checked text contains, case ignored
PlaceholdersPresent ==
    SelectSeq(ForbiddenPhrases,
              LAMBDA ph : IsSubstr(Lower(ph), Lower(result.document_text)))

\* the parts after a level-2 heading that are shorter than MinSectionChars
ThinSubsections ==
    SelectSeq(Tail(SplitStr(result.document_text, <<NL, "#", "#", " ">>)),
              LAMBDA sec : Len(Strip(sec)) < MinSectionChars)

HasIssue(kind) ==
    \E i \in 1..Len(state.quality_issues) : state.quality_issues[i].kind = kind

\* C22: when the rule-based fallback runs, the status is failed exactly when
\* one of the four rules triggers (short text, placeholder phrase, fewer than
\* MinHeadingCount heading lines, a thin level-2 sub-section), there is one
\* issue per trigger and none on a pass; a text with at least MinHeadingCount
\* heading lines gets no too-few-sections issue.
C22_RuleBasedFallback ==
    result.op = "quality_gate_fallback" =>
        LET too_short == Len(result.document_text) < MinDocumentChars
            too_few == Len(FallbackHeadingLines) < MinHeadingCount
            thin == Truthy(ThinSubsections)
            triggers == (IF too_short THEN 1 ELSE 0) + Len(PlaceholdersPresent)
                        + (IF too_few THEN 1 ELSE 0) + (IF thin THEN 1 ELSE 0)
        IN  /\ state.status = (IF triggers > 0 THEN "failed" ELSE "passed")
            /\ Len(state.quality_issues) = triggers
            /\ HasIssue("Document is too short") <=> too_short
            /\ HasIssue("Contains placeholder") <=> Truthy(PlaceholdersPresent)
            /\ HasIssue("sections are too thin") <=> thin
            /\ Len(FallbackHeadingLines) >= MinHeadingCount => ~HasIssue("Too few sections")

\* the invocation `run` after the nodes that got `replies`, run on its own
RECURSIVE Replay(_, _)
Replay(run, replies) ==
    IF replies = <<>> THEN run
    ELSE LET stepped == GraphStep(run.state, run.pc, Head(replies))
         IN  Replay([run EXCEPT !.state = stepped.state, !.pc = stepped.pc], Tail(replies))

\* the invocation on its own, from its initial_state, with the same replies
Alone(run) == Replay([run EXCEPT !.state = run.initial, !.pc = "analyze_schema_gaps"],
                     run.replies)

NodeAt(i) ==
    CASE i = 1 -> "analyze_schema_gaps"
      [] i = 2 -> "build_prompt"
      [] i = 3 -> "generate_document"
      [] i > 3 /\ i % 2 = 0 -> "quality_gate"
      [] OTHER -> "fix_document"

\* node `writer` has run before step i
RanBefore(writer, i) == \E j \in 1..(i - 1) : trace[j] = writer

\* C24: the nodes of a run execute in the order analyze_schema_gaps,
\* build_prompt, generate_document, quality_gate, then (fix_document,
\* quality_gate) pairs; generate_document and fix_document run after
\* build_prompt, quality_gate after a generation, fix_document after a
\* quality_gate pass that wrote its issues.
C24_NodeOrder ==
    /\ \A i \in 1..Len(trace) :
          /\ trace[i] = NodeAt(i)
          /\ trace[i] \in {"generate_document", "fix_document"} => RanBefore("build_prompt", i)
          /\ trace[i] = "quality_gate" => RanBefore("generate_document", i)
          /\ trace[i] = "fix_document" => i > 1 /\ trace[i - 1] = "quality_gate"
    /\ pc \notin {"END", "raised"} => pc = NodeAt(Len(trace) + 1)
    /\ pc = "fix_document" => Len(verdicts) > 0 /\ Last(verdicts) = "failed"

\* a run that went through both repairs and ended
C24_Witness ==
    /\ pc = "END"
    /\ trace = <<"analyze_schema_gaps", "build_prompt", "generate_document", "quality_gate",
                 "fix_document", "quality_gate", "fix_document", "quality_gate">>

\* the members of a sequence
Members(seq) == {seq[i] : i \in 1..Len(seq)}

\* the answer item generate_single_section makes of doc_memory
IsMemoryItem(qa_item, doc_memory) ==
    /\ qa_item.category = MemoryCategory
    /\ qa_item.question = MemoryQuestion
    /\ qa_item.answer = [list |-> FALSE, v |-> doc_memory]

\* C25: generate_single_section hands the graph an initial state (retry
\* counter 0, status generating) whose schema has exactly one section with
\* subsections taken from the given section, and whose answers are the
\* caller's answers, preceded by exactly one item carrying doc_memory when
\* doc_memory is not blank.
C25_SectionScopedRun ==
    result.op = "generate_single_section" =>
        /\ ~result.out.raised
        /\ LET initial_state == result.out.update
               scoped == initial_state.required_section.sections
               answers == initial_state.questions_and_answers
           IN  /\ Len(scoped) = 1
               /\ Members(scoped[1].subsections)
                      \subseteq Members(Get(result.section, "subsections", <<>>))
               /\ initial_state.retry_count = 0
               /\ initial_state.status = "generating"
               /\ IF Truthy(Strip(result.doc_memory))
                  THEN /\ Len(answers) = Len(result.questions_and_answers) + 1
                       /\ IsMemoryItem(answers[1], result.doc_memory)
                       /\ Tail(answers) = result.questions_and_answers
                  ELSE answers = result.questions_and_answers

\* the last quality_gate pass got a review reply that parses as a JSON object
ReviewParsed ==
    /\ AfterGate
    /\ review # 0
    /\ ~ReviewReplies[review].raises
    /\ JsonParses(StripFences(ReviewReplies[review].content))
    /\ JsonValue(StripFences(ReviewReplies[review].content)).type = "object"

ReviewFields == JsonValue(StripFences(ReviewReplies[review].content)).fields

\* the reply's `passed` value; without one, whether overall_score (3 when
\* absent) is at least 3
PassedValue ==
    IF "passed" \in DOMAIN ReviewFields THEN ReviewFields.passed
    ELSE LET overall_score == Get(ReviewFields, "overall_score", JsonNumber(3))
         IN  overall_score.type = "number" /\ overall_score.n >= 3

\* C26: after a quality_gate pass whose review reply parses as JSON, status is
\* passed exactly when the reply's `passed` value is true (by default,
\* overall_score >= 3 with overall_score 3 when absent), whatever
\* overall_score says.
C26_ReviewVerdictFollowsReply ==
    ReviewParsed => ((state.status = "passed") <=> PassedValue)

\* the fix_document calls that have returned
CompletedFixes ==
    Count(trace, "fix_document")
        - (IF pc = "raised" /\ Last(trace) = "fix_document" THEN 1 ELSE 0)

\* C27: from build_prompt onward retry_count is between 0 and MaxRetries, is
\* the number of fix_document calls that have returned, and no step lowers it.
C27_RetryCount ==
    /\ [](PromptBuilt =>
            /\ state.retry_count \in 0..MaxRetries
            /\ state.retry_count = CompletedFixes)
    /\ [][PromptBuilt => state'.retry_count >= state.retry_count]_vars

\* a run that ended after both repairs
C27_Witness ==
    /\ pc = "END"
    /\ state.retry_count = MaxRetries
    /\ Count(trace, "fix_document") = MaxRetries
    /\ state.status = "failed"

\* C28: whenever a quality_gate pass sets status = passed, by the table-only
\* checks, the review or the rule-based checks, quality_issues is empty, also
\* when the passing review reported issues; a run that returns status =
\* passed returns quality_issues = [].
C28_PassedHasNoIssues ==
    /\ (AfterGate /\ state.status = "passed") => state.quality_issues = <<>>
    /\ (response.code = 200 /\ entry = "run_agent" /\ response.body.status = "passed") =>
          response.body.quality_issues = <<>>

\* a run returned passed after a review that passed the document and
\* reported an issue
C28_Witness ==
    /\ AfterGate
    /\ pc = "END"
    /\ entry = "run_agent"
    /\ review # 0
    /\ ReviewParsed
    /\ Truthy(Get(ReviewFields, "issues", <<>>))
    /\ response.code = 200
    /\ response.body.status = "passed"
    /\ response.body.quality_issues = <<>>

\* the model invocations a run has made: gap analysis, generation, repair and
\* review calls
ModelCalls ==
    Count(calls, "llm_gap") + Count(calls, "llm_generate") + Count(calls, "llm_fix")
        + Count(calls, "llm_review")

\* C29: a run makes at most 7 model invocations: one gap-analysis call, at
\* most 3 generation or repair calls and at most 3 review calls, no more than
\* one per quality_gate pass; with a table-only schema it makes no review
\* call and at most 4 invocations.
C29_ModelCallBound ==
    /\ Count(calls, "llm_gap") <= 1
    /\ GenerationCalls <= MaxRetries + 1
    /\ Count(calls, "llm_review") <= MaxRetries + 1
    /\ Count(calls, "llm_review") <= Count(trace, "quality_gate")
    /\ ModelCalls <= 2 * (MaxRetries + 1) + 1
    /\ is_table_only_schema(state.required_section) =>
          /\ Count(calls, "llm_review") = 0
          /\ ModelCalls <= MaxRetries + 2

\* a run that made all seven invocations
C29_Witness ==
    /\ pc = "END"
    /\ entry = "run_agent"
    /\ ModelCalls = 7
    /\ Count(calls, "llm_review") = 3
    /\ Count(calls, "llm_fix") = 2

\* the titles the validator requires of a document for the schema
RequiredTitles ==
    {ExpectedSections(state.required_section)[i].title :
        i \in 1..Len(ExpectedSections(state.required_section))}

\* C30: for a schema that is not table-only, the titles listed in the strict
\* section rule of the prompt are the titles the validator requires, and the
\* validator reports no missing section on a document that has exactly the
\* listed headings.
C30_PromptMatchesValidator ==
    (result.op = "build_prompt" /\ state.system_prompt.template = "system") =>
        /\ Members(state.system_prompt.strict_rule) = RequiredTitles
        /\ \A i \in 1..Len(result.errors) : result.errors[i].kind # "Missing"

====
